---- MODULE Spec2Model ----
(***************************************************************************)
(* VentVault: the streaming vent-request pipeline.                         *)
(*                                                                         *)
(*   Server  rate-limit check -> PII scrub -> LLM stream relay -> SSE      *)
(*           (backend/app/*.py is not part of the sources; the server side *)
(*           follows spec.md sections 3, 4 and 7 and backend/README.md)    *)
(*   Client  streamVent of frontend/lib/api-client.ts, character by        *)
(*           character, with the network free to cut the body into chunks  *)
(*   Page    the vent page of frontend/app/vent/page.tsx with its handlers *)
(*           and the callbacks of the streams it has started               *)
(*                                                                         *)
(* Each part has its own specification (ServerSpec, ClientSpec, PageSpec); *)
(* the variables of the other parts keep their initial values.             *)
(***************************************************************************)
EXTENDS Integers, Sequences, FiniteSets, Bags, TLC

VARIABLES
    counter,    \* server: identity -> value of its rate-limit key (0: no key)
    reqs,       \* server: the requests being handled, a bag of request states
    accepted,   \* history: identity -> requests admitted since its key was created
    rejected,   \* history: identity -> requests answered 429 since its key was created
    observed,   \* history: identity -> the counts its requests got from the increment
    repeated,   \* history: identity -> some count was got by two requests
    outcome,    \* client: what fetch() does in this call of streamVent
    headers,    \* client: X-Session-ID and X-Remaining-Vents of the response
    upstream,   \* client: the tokens the upstream LLM produces for this call
    terminal,   \* client: how the response stream of this call ends
    wire,       \* client: characters of the response body not yet read
    buffer,     \* client: streamVent's buffer
    calls,      \* client: the callbacks streamVent has made, in order
    cpc,        \* client: where streamVent is: start, reading, returned
    closure,    \* client: what the callbacks of this call close over
    page,       \* page: the React state of VentPage
    streams,    \* page: the calls of streamVent in flight, a bag
    storage,    \* session: the items of sessionStorage and localStorage
    sent,       \* session: the requests sent to POST /api/vent, in order
    scalls,     \* session: the calls of the session-aware streamVent in flight
    startedOver,\* session: the page was reset and no request was sent since
    backend,    \* health: the backend: healthy, degraded (no cache), down
    client,     \* health: the api client the frontend is built with
    isHealthy,  \* health: the state of BackendStatus: null, true, false
    checks,     \* health: the calls of checkHealth in flight, a bag
    shown,      \* health: the answer to the check whose result isHealthy holds
    early,      \* early page: the React state of the earlier vent page
    estreams,   \* early page: its calls of streamVent in flight, a bag
    isSignedIn, \* auth: whether Clerk has a signed-in user
    getAuthToken,\* auth: the getter registered in the client: none, or what it closes over
    effectDue,  \* auth: the effect of useAuthApi has to run (mount, isSignedIn changed)
    acalls,     \* auth: the calls of streamVent waiting for the token, a bag
    asent,      \* auth: the requests sent, each with what its call met, in order
    banner,     \* privacy: the state of ConsentBanner and its mount timer
    settings,   \* privacy: the state of PrivacySettings and the reload it has scheduled
    pending     \* privacy: the handlers waiting for the consent API, a bag

serverVars == <<counter, reqs, accepted, rejected, observed, repeated>>

clientVars == <<outcome, headers, upstream, terminal, wire, buffer, calls, cpc, closure>>

pageVars == <<page, streams>>

sessionVars == <<storage, sent, scalls, startedOver>>
healthVars == <<backend, client, isHealthy, checks, shown>>
earlyVars == <<early, estreams>>
authVars == <<isSignedIn, getAuthToken, effectDue, acalls, asent>>
privacyVars == <<banner, settings, pending>>
vars == <<serverVars, clientVars, pageVars, sessionVars, healthVars, earlyVars, authVars, privacyVars>>

\* VentPage as it is first rendered (useState initial values); inputIsRecording
\* is the isRecording of the AIVoiceInput it mounts.
InitialPage ==
    [ ventMode           |-> "null",
      ventText           |-> <<>>,
      isReleased         |-> FALSE,
      aiResponse         |-> <<>>,
      isLoading          |-> FALSE,
      isRecording        |-> FALSE,
      recordingDuration  |-> 0,
      isChatMode         |-> FALSE,
      messages           |-> <<>>,
      chatInput          |-> <<>>,
      showRateLimitModal |-> FALSE,
      inputIsRecording   |-> FALSE ]

\* What the callbacks handed to streamVent close over: the handler that made
\* the call, the request's content, messages.length as the handler saw it, and
\* the handler's assistantResponse.
Closure(kind, content, base) ==
    [kind |-> kind, content |-> content, base |-> base, acc |-> <<>>]

NoClosure == Closure("none", <<>>, 0)

\* The page is untouched and calls nothing.
PageOff ==
    /\ page = InitialPage
    /\ streams = EmptyBag

\* The browser's storage: the value of each key, <<>> for a key without item.
EmptyStorage ==
    [ ventvault_session_id    |-> <<>>,   \* sessionStorage
      ventvault_user_id       |-> <<>>,   \* localStorage, as are the next two
      ventvault_consent       |-> <<>>,
      ventvault_consent_shown |-> <<>> ]

\* Nothing is stored and the session-aware client calls nothing.
SessionOff ==
    /\ storage = EmptyStorage
    /\ sent = <<>>
    /\ scalls = {}
    /\ startedOver = FALSE

\* The earlier vent page as it is first rendered (useState initial values);
\* inputIsRecording is the isRecording of the AIVoiceInput it mounts.
InitialEarlyPage ==
    [ ventMode          |-> "null",
      ventText          |-> <<>>,
      isReleased        |-> FALSE,
      aiResponse        |-> <<>>,
      isLoading         |-> FALSE,
      isRecording       |-> FALSE,
      recordingDuration |-> 0,
      inputIsRecording  |-> FALSE ]

\* The earlier page is untouched and calls nothing.
EarlyOff ==
    /\ early = InitialEarlyPage
    /\ estreams = EmptyBag

\* let getAuthToken = null: no getter is registered; a registered getter
\* closes over the isSignedIn of the render that registered it.
NoGetter == [registered |-> FALSE, isSignedIn |-> FALSE]
Getter(signedIn) == [registered |-> TRUE, isSignedIn |-> signedIn]

\* No page with useAuthApi is mounted and no request is made.
AuthOff ==
    /\ isSignedIn = FALSE
    /\ getAuthToken = NoGetter
    /\ effectDue = FALSE
    /\ acalls = EmptyBag
    /\ asent = <<>>

\* Consent preferences: the two the banner and the settings let the user
\* switch, and the two they leave off.
Consents(analytics, location) ==
    [analytics |-> analytics, location |-> location, save_history |-> FALSE,
     marketing |-> FALSE]

\* ConsentBanner as it is first rendered (useState initial values); timer is
\* the setTimeout of its mount effect.
InitialBanner ==
    [isVisible |-> FALSE, timer |-> FALSE, showDetails |-> FALSE,
     consents |-> Consents(TRUE, FALSE)]

\* PrivacySettings as it is first rendered, with isOpen of the page, and no
\* reload scheduled.
InitialSettings ==
    [isOpen |-> FALSE, consents |-> Consents(FALSE, FALSE), isSaving |-> FALSE,
     showDeleteConfirm |-> FALSE, message |-> "null", reloadDue |-> FALSE]

\* No page with the banner and the settings is loaded.
PrivacyOff ==
    /\ banner = InitialBanner
    /\ settings = InitialSettings
    /\ pending = EmptyBag

\* What a call of checkHealth met: fetch threw, or a response came whose
\* body is not JSON, or one whose body is JSON with that status.
Threw == [kind |-> "throws", status |-> ""]
NotJson == [kind |-> "not json", status |-> ""]
Json(status) == [kind |-> "json", status |-> status]
NoAnswer == [kind |-> "none", status |-> ""]

\* BackendStatus is not mounted.
HealthOff ==
    /\ backend = "healthy"
    /\ client = "none"
    /\ isHealthy = "null"
    /\ checks = EmptyBag
    /\ shown = NoAnswer

\* No call of streamVent is being made.
\* A response header: absent, or present with a value.  The session id is
\* one opaque word, the count of remaining vents a string of characters.
Absent(empty) == [present |-> FALSE, value |-> empty]
Present(value) == [present |-> TRUE, value |-> value]

NoHeaders == [session |-> Absent(""), remaining |-> Absent(<<>>)]

ClientOff ==
    /\ outcome = [kind |-> "none"]
    /\ headers = NoHeaders
    /\ upstream = <<>>
    /\ terminal = "none"
    /\ wire = <<>>
    /\ buffer = <<>>
    /\ calls = <<>>
    /\ cpc = "off"
    /\ closure = NoClosure

-----------------------------------------------------------------------------
(* Bounds of the model.                                                    *)

\* Requests the server handles at the same time.
NumSlots == 2

\* Tokens the upstream LLM produces for one request, at most.
MaxTokens == 1

\* How far beyond its limit an identity's counter is followed.
MaxOver == 1

\* Tokens the upstream produces for one call of streamVent, at most.
MaxUpstream == 2

\* Calls of streamVent the page has in flight at the same time.
MaxInFlight == 2

\* Tokens one call of the page receives, at most.
MaxStreamTokens == 1

\* Messages of a conversation after which no follow-up is sent.
MaxMessages == 3

\* Requests the session-aware client sends, at most.
MaxCalls == 2

\* Calls of checkHealth in flight at the same time.
MaxChecks == 2

\* Handlers of the banner and the settings waiting for the consent API at once.
MaxWaiting == 1

-----------------------------------------------------------------------------
(* Server: rate limiter.                                                   *)

AnonDailyLimit == 2

SignedInDailyLimit == 10

Identities == {"anon:dev1", "user:u1"}

\* The tier threshold of an identity.
TierLimit(id) == IF id = "anon:dev1" THEN AnonDailyLimit ELSE SignedInDailyLimit

\* The cache's native increment: creates the key at 1, else adds one.
Incr(c) == c + 1

OverLimitOffByOne(count, id) == count > TierLimit(id) + 1

\* increment-and-compare: the verdict on the value the increment returned.
OverLimit(count, id) == count > TierLimit(id)

-----------------------------------------------------------------------------
(* Server: PII scrubber.  A text is a sequence of words; a pattern matches *)
(* whole words.                                                            *)

NoText == <<>>

PiiPatterns ==
    << [name |-> "email", matches |-> {"test@example.com"},    repl |-> "[EMAIL]"],
       [name |-> "phone", matches |-> {"555-123-4567"},        repl |-> "[PHONE]"],
       [name |-> "ssn",   matches |-> {"123-45-6789"},         repl |-> "[SSN]"],
       [name |-> "card",  matches |-> {"4111-1111-1111-1111"}, repl |-> "[CARD]"],
       [name |-> "ip",    matches |-> {"192.168.0.1"},         repl |-> "[IP]"],
       [name |-> "date",  matches |-> {"01/02/1990"},          repl |-> "[DATE]"] >>

PiiWords == UNION {PiiPatterns[i].matches : i \in 1..Len(PiiPatterns)}

\* One substitution of the list, applied to the whole text.
Substitute(p, text) ==
    [i \in 1..Len(text) |-> IF text[i] \in p.matches THEN p.repl ELSE text[i]]

RECURSIVE ApplyPatterns(_, _)
ApplyPatterns(k, text) ==
    IF k > Len(PiiPatterns) THEN text
    ELSE ApplyPatterns(k + 1, Substitute(PiiPatterns[k], text))

\* The ordered list of substitutions.
ScrubPII(text) == ApplyPatterns(1, text)

ContainsPII(text) == \E i \in 1..Len(text) : text[i] \in PiiWords

\* The vent text of a request: one of each kind of PII among plain words.
RawTexts ==
    { <<"I", "feel", "stressed", "test@example.com", "555-123-4567", "123-45-6789",
        "4111-1111-1111-1111", "192.168.0.1", "born", "01/02/1990">> }

-----------------------------------------------------------------------------
(* Server: the request pipeline of POST /api/vent.                         *)

NewReq(id, text) ==
    [ pc      |-> "received", \* received, admitted, scrubbed, streaming, closed
      id      |-> id,
      raw     |-> text,       \* the request's content
      status  |-> 0,          \* HTTP status of the response (0: none yet)
      clean   |-> NoText,     \* output of the scrubber
      logged  |-> NoText,     \* text written to the log
      prompt  |-> NoText,     \* text handed to the LLM
      made    |-> 0,          \* tokens the upstream has produced
      out     |-> <<>> ]      \* SSE data lines written to the response

TokenLine(n) == [kind |-> "token", n |-> n]
DoneLine     == [kind |-> "[DONE]", n |-> 0]
ErrorLine    == [kind |-> "[ERROR]", n |-> 0]

\* The requests being handled.
InFlight == BagToSet(reqs)

\* One request of the bag goes from state r to state r2.
Becomes(r, r2) == reqs' = (reqs (-) SetToBag({r})) (+) SetToBag({r2})

history == <<accepted, rejected, observed, repeated>>

\* What a check that got `count` for `id` with verdict `ok` adds to the history.
Record(id, count, ok) ==
    /\ accepted' = [accepted EXCEPT ![id] = IF ok THEN @ + 1 ELSE @]
    /\ rejected' = [rejected EXCEPT ![id] = IF ok THEN @ ELSE @ + 1]
    /\ observed' = [observed EXCEPT ![id] = @ \cup {count}]
    /\ repeated' = [repeated EXCEPT ![id] = @ \/ count \in observed[id]]

\* A request arrives.
Receive(id, text) ==
    /\ BagCardinality(reqs) < NumSlots
    /\ counter[id] < TierLimit(id) + MaxOver
    /\ reqs' = reqs (+) SetToBag({NewReq(id, text)})
    /\ UNCHANGED <<counter, history>>

\* A check that reads the key and writes it back in two operations: the write
\* is lost when another request of the identity is waiting for its check.
RateLimitCheckGetThenSet(r) ==
    /\ r.pc = "received"
    /\ LET id    == r.id
           count == counter[id] + 1
           raced == CopiesIn(r, reqs) > 1
       IN  /\ counter' = IF raced THEN counter ELSE [counter EXCEPT ![id] = count]
           /\ Record(id, count, ~OverLimit(count, id))
           /\ IF OverLimit(count, id)
              THEN Becomes(r, [r EXCEPT !.pc = "closed", !.status = 429])
              ELSE Becomes(r, [r EXCEPT !.pc = "admitted", !.status = 200])

\* A check whose verdict does not stop the pipeline.
RateLimitCheckVerdictIgnored(r) ==
    /\ r.pc = "received"
    /\ LET id    == r.id
           count == Incr(counter[id])
       IN  /\ counter' = [counter EXCEPT ![id] = count]
           /\ Record(id, count, ~OverLimit(count, id))
           /\ Becomes(r, [r EXCEPT !.pc = "admitted",
                                   !.status = IF OverLimit(count, id) THEN 429 ELSE 200])

\* Step 1: the rate-limit check, one increment-and-compare.
RateLimitCheck(r) ==
    /\ r.pc = "received"
    /\ LET id    == r.id
           count == Incr(counter[id])
       IN  /\ counter' = [counter EXCEPT ![id] = count]
           /\ Record(id, count, ~OverLimit(count, id))
           /\ IF OverLimit(count, id)
              THEN Becomes(r, [r EXCEPT !.pc = "closed", !.status = 429])
              ELSE Becomes(r, [r EXCEPT !.pc = "admitted", !.status = 200])

\* Step 2: the scrubber; what is logged is its output.
Scrub(r) ==
    /\ r.pc = "admitted"
    /\ LET clean == ScrubPII(r.raw)
       IN  Becomes(r, [r EXCEPT !.pc = "scrubbed", !.clean = clean, !.logged = clean])
    /\ UNCHANGED <<counter, history>>

\* The upstream call opened on the request's own content.
OpenLLMRaw(r) ==
    /\ r.pc = "scrubbed"
    /\ Becomes(r, [r EXCEPT !.pc = "streaming", !.prompt = r.raw])
    /\ UNCHANGED <<counter, history>>

\* Step 3: the upstream streaming completion call is opened.
OpenLLM(r) ==
    /\ r.pc = "scrubbed"
    /\ Becomes(r, [r EXCEPT !.pc = "streaming", !.prompt = r.clean])
    /\ UNCHANGED <<counter, history>>

\* Step 4: a token of the upstream is forwarded as one data line.
RelayToken(r) ==
    /\ r.pc = "streaming"
    /\ r.made < MaxTokens
    /\ Becomes(r, [r EXCEPT !.made = @ + 1, !.out = Append(@, TokenLine(r.made + 1))])
    /\ UNCHANGED <<counter, history>>

\* The upstream completes: the terminal [DONE].
UpstreamDone(r) ==
    /\ r.pc = "streaming"
    /\ Becomes(r, [r EXCEPT !.pc = "closed", !.out = Append(@, DoneLine)])
    /\ UNCHANGED <<counter, history>>

\* An upstream failure that only ends the response.
UpstreamFailSilent(r) ==
    /\ r.pc = "streaming"
    /\ Becomes(r, [r EXCEPT !.pc = "closed"])
    /\ UNCHANGED <<counter, history>>

\* The upstream fails: the terminal [ERROR].
UpstreamFail(r) ==
    /\ r.pc = "streaming"
    /\ Becomes(r, [r EXCEPT !.pc = "closed", !.out = Append(@, ErrorLine)])
    /\ UNCHANGED <<counter, history>>

\* The response has been sent; the request is over.
Finish(r) ==
    /\ r.pc = "closed"
    /\ reqs' = reqs (-) SetToBag({r})
    /\ UNCHANGED <<counter, history>>

NewWindow(id) ==
    /\ accepted' = [accepted EXCEPT ![id] = 0]
    /\ rejected' = [rejected EXCEPT ![id] = 0]
    /\ observed' = [observed EXCEPT ![id] = {}]
    /\ repeated' = [repeated EXCEPT ![id] = FALSE]

\* An expiry that leaves the count of the old window in place.
ExpireKeepsCount(id) ==
    /\ counter[id] > 0
    /\ counter' = [counter EXCEPT ![id] = IF @ > TierLimit(id) THEN TierLimit(id) ELSE @]
    /\ NewWindow(id)
    /\ UNCHANGED reqs

\* The 24h expiry of an identity's key: the key is gone, a new window begins.
Expire(id) ==
    /\ counter[id] > 0
    /\ counter' = [counter EXCEPT ![id] = 0]
    /\ NewWindow(id)
    /\ UNCHANGED reqs

ServerInit ==
    /\ counter = [id \in Identities |-> 0]
    /\ reqs = EmptyBag
    /\ accepted = [id \in Identities |-> 0]
    /\ rejected = [id \in Identities |-> 0]
    /\ observed = [id \in Identities |-> {}]
    /\ repeated = [id \in Identities |-> FALSE]
    /\ ClientOff
    /\ PageOff
    /\ SessionOff
    /\ HealthOff
    /\ EarlyOff
    /\ AuthOff
    /\ PrivacyOff

ServerNext ==
    /\ UNCHANGED <<clientVars, pageVars, sessionVars, healthVars, earlyVars, authVars, privacyVars>>
    /\ \/ \E id \in Identities, text \in RawTexts : Receive(id, text)
       \/ \E r \in InFlight : RateLimitCheck(r)
       \/ \E r \in InFlight : Scrub(r)
       \/ \E r \in InFlight : OpenLLM(r)
       \/ \E r \in InFlight : RelayToken(r)
       \/ \E r \in InFlight : UpstreamDone(r)
       \/ \E r \in InFlight : UpstreamFail(r)
       \/ \E r \in InFlight : Finish(r)
       \/ \E id \in Identities : Expire(id)

ServerSpec == ServerInit /\ [][ServerNext]_vars

\* The cache deletes an expired key by itself.
ServerFairSpec ==
    ServerSpec /\ \A id \in Identities : WF_serverVars(Expire(id))

-----------------------------------------------------------------------------
(* Claims about the server.                                                *)

Last(q) == q[Len(q)]

Min(a, b) == IF a < b THEN a ELSE b

C2_AtomicIncrementAndCompare ==
    \A id \in Identities :
        /\ ~repeated[id]
        /\ observed[id] = 1..counter[id]
        /\ accepted[id] = Cardinality({c \in observed[id] : c <= TierLimit(id)})
        /\ accepted[id] + rejected[id] = counter[id]

\* Two requests of one identity in flight at once, the last free place taken
\* by one of them and the other rejected.
C2_Witness ==
    \E r, q \in InFlight :
        /\ r.id = q.id
        /\ r.pc = "admitted" /\ q.pc = "closed" /\ q.status = 429
        /\ accepted[r.id] = TierLimit(r.id) /\ rejected[r.id] = 1

Blocked(id) == counter[id] >= TierLimit(id)

\* C3: the counter is created by the first request, goes up by one per request
\* and expires by itself; after the expiry the first request is accepted with
\* the whole quota ahead, so an identity at its limit can vent again.
C3_CounterLifecycle ==
    /\ [][\A id \in Identities :
            \/ counter'[id] = counter[id]
            \/ counter'[id] = counter[id] + 1
            \/ counter'[id] = 0 /\ accepted'[id] = 0]_vars
    /\ [](\A id \in Identities : counter[id] = 0 <=> observed[id] = {})
    /\ [](\A id \in Identities : accepted[id] = Min(counter[id], TierLimit(id)))
    /\ \A id \in Identities : Blocked(id) ~> ~Blocked(id)

\* A request rejected in a window that is over, and the first request of the
\* next window accepted.
C3_Witness ==
    \E r, q \in InFlight :
        /\ r.id = q.id
        /\ r.status = 429
        /\ q.pc = "admitted" /\ counter[q.id] = 1 /\ accepted[q.id] = 1

Scrubbed == [t \in RawTexts |-> ScrubPII(t)]

\* C5: the text handed to the LLM and the text logged are the scrubber's
\* output for the request's content and hold none of the PII it had.
C5_ScrubbedBeforeForward ==
    \A r \in InFlight :
        /\ (r.pc \in {"streaming", "closed"} /\ r.status = 200)
              => r.prompt = Scrubbed[r.raw] /\ ~ContainsPII(r.prompt)
        /\ r.logged # NoText
              => r.logged = Scrubbed[r.raw] /\ ~ContainsPII(r.logged)

C5_Witness ==
    \E r \in InFlight :
        /\ r.pc = "streaming" /\ ContainsPII(r.raw)
        /\ r.prompt = <<"I", "feel", "stressed", "[EMAIL]", "[PHONE]", "[SSN]", "[CARD]",
                        "[IP]", "born", "[DATE]">>

\* C6: a rejected request is never scrubbed, never reaches the LLM and gets
\* no data line; the LLM call of an accepted request is opened after its
\* rate-limit check has passed and its content has been scrubbed.
C6_PipelineOrder ==
    \A r \in InFlight :
        /\ r.status = 429
              => /\ r.pc = "closed"
                 /\ r.clean = NoText /\ r.logged = NoText
                 /\ r.prompt = NoText /\ r.out = <<>>
        /\ (r.pc = "streaming" \/ r.prompt # NoText \/ r.out # <<>>)
              => r.status = 200 /\ r.clean = Scrubbed[r.raw] /\ r.prompt = r.clean
        /\ r.clean # NoText => r.status = 200

C6_Witness ==
    \E r, q \in InFlight :
        /\ r.id = q.id
        /\ r.pc = "closed" /\ r.status = 429
        /\ q.pc = "streaming" /\ q.out # <<>>

-----------------------------------------------------------------------------
(* Text.  A string is a sequence of pieces that are never split further:   *)
(* single characters wherever the code looks inside a string (the response *)
(* body), words and punctuation marks elsewhere (messages).                *)

NL == "\n"

RECURSIVE Join(_)
\* The concatenation of a sequence of strings.
Join(strs) == IF strs = <<>> THEN <<>> ELSE Head(strs) \o Join(Tail(strs))

\* line.startsWith(prefix)
StartsWith(str, prefix) ==
    Len(str) >= Len(prefix) /\ SubSeq(str, 1, Len(prefix)) = prefix

\* str.slice(n)
Slice(str, n) == SubSeq(str, n + 1, Len(str))

\* str.includes(part)
Includes(str, part) ==
    \E i \in 0..(Len(str) - Len(part)) : SubSeq(str, i + 1, i + Len(part)) = part

RECURSIVE Split(_, _)
\* str.split(sep) for a separator of one character: never empty, and its
\* last element is what follows the last separator.
Split(str, sep) ==
    IF \A i \in 1..Len(str) : str[i] # sep THEN <<str>>
    ELSE LET k == CHOOSE i \in 1..Len(str) :
                      str[i] = sep /\ \A j \in 1..(i - 1) : str[j] # sep
         IN  <<SubSeq(str, 1, k - 1)>> \o Split(SubSeq(str, k + 1, Len(str)), sep)

\* All but the last element: what is left of `lines` after lines.pop().
Front(q) == SubSeq(q, 1, Len(q) - 1)

IsSpace(c) == c \in {" ", NL}

RECURSIVE TrimStart(_)
TrimStart(str) ==
    IF str # <<>> /\ IsSpace(Head(str)) THEN TrimStart(Tail(str)) ELSE str

RECURSIVE TrimEnd(_)
TrimEnd(str) ==
    IF str # <<>> /\ IsSpace(str[Len(str)]) THEN TrimEnd(Front(str)) ELSE str

\* str.trim()
Trim(str) == TrimEnd(TrimStart(str))

Digits == <<"0", "1", "2", "3", "4", "5", "6", "7", "8", "9">>

IsDigit(c) == \E d \in 1..Len(Digits) : Digits[d] = c

DigitValue(c) == (CHOOSE d \in 1..Len(Digits) : Digits[d] = c) - 1

\* A JavaScript number that parseInt can give: an integer or NaN.
Number(n) == [isNaN |-> FALSE, n |-> n]
NaN == [isNaN |-> TRUE, n |-> 0]

RECURSIVE ParseDigits(_, _)
\* The value of the digits str begins with, after the digits of value acc.
ParseDigits(str, acc) ==
    IF str = <<>> \/ ~IsDigit(Head(str)) THEN acc
    ELSE ParseDigits(Tail(str), acc * 10 + DigitValue(Head(str)))

\* parseInt(str): leading white space, a sign, then digits up to the first
\* character that is none; NaN when there is no digit.
ParseInt(str) ==
    LET s    == TrimStart(str)
        sign == IF s # <<>> /\ Head(s) = "-" THEN -1 ELSE 1
        body == IF s # <<>> /\ Head(s) \in {"+", "-"} THEN Tail(s) ELSE s
    IN  IF body = <<>> \/ ~IsDigit(Head(body)) THEN NaN
        ELSE Number(sign * ParseDigits(body, 0))

\* A number as the console prints it.
NumberText(v) == IF v.isNaN THEN "NaN" ELSE ToString(v.n)

-----------------------------------------------------------------------------
(* Client: streamVent of lib/api-client.ts.                                *)

DataPrefix == <<"d", "a", "t", "a", ":", " ">>

DoneText == <<"[", "D", "O", "N", "E", "]">>

ErrorText == <<"[", "E", "R", "R", "O", "R", "]">>

DailyLimitMessage ==
    <<"Daily", " ", "vent", " ", "limit", " ", "reached", ".", " ",
      "Sign", " ", "in", " ", "for", " ", "more", " ", "vents", ".">>

\* `API error: ${response.status}`
ApiErrorMessage(status) == <<"API", " ", "error", ":", " ", ToString(status)>>

NoBodyMessage == <<"No", " ", "response", " ", "body">>

LLMStreamingError == <<"LLM", " ", "streaming", " ", "error">>

FailedToConnect == <<"Failed", " ", "to", " ", "connect", " ", "to", " ", "server">>

\* What the browser's fetch throws when the backend cannot be reached.
FailedToFetch == <<"Failed", " ", "to", " ", "fetch">>

\* new Error(message), and a thrown value that is no Error.
Error(message) == [thrown |-> TRUE, isError |-> TRUE, message |-> message]
NotAnError == [thrown |-> TRUE, isError |-> FALSE, message |-> <<>>]
\* Nothing is thrown.
Nothing == [thrown |-> FALSE, isError |-> FALSE, message |-> <<>>]

\* The catch clause: the message handed to onError.
CatchMessage(thrown) == IF thrown.isError THEN thrown.message ELSE FailedToConnect

\* A response: its status, and whether it has a body to read.
Response(status, hasBody) == [kind |-> "response", status |-> status, hasBody |-> hasBody]
\* fetch rejects with the value thrown.
Rejects(thrown) == [kind |-> "rejects", thrown |-> thrown]

\* response.ok
Ok(status) == status >= 200 /\ status <= 299

\* Lines 37-42 with every status handled as 429 is not.
BeforeStreamNo429(o) ==
    IF o.kind = "rejects" THEN o.thrown
    ELSE IF ~Ok(o.status) THEN Error(ApiErrorMessage(o.status))
    ELSE IF ~o.hasBody THEN Error(NoBodyMessage)
    ELSE Nothing

\* What streamVent throws before it reads the stream (Nothing: it goes on).
BeforeStream(o) ==
    IF o.kind = "rejects" THEN o.thrown
    ELSE IF ~Ok(o.status)
         THEN IF o.status = 429 THEN Error(DailyLimitMessage)
              ELSE Error(ApiErrorMessage(o.status))
    ELSE IF ~o.hasBody THEN Error(NoBodyMessage)
    ELSE Nothing

Call(cb, arg) == [cb |-> cb, arg |-> arg]

\* response.headers.get(name) || fallback
GetOr(header, empty, fallback) ==
    IF header.present /\ header.value # empty THEN header.value ELSE fallback

\* Lines 45-46 without the fallbacks.
MetadataNoDefault(hs) ==
    << IF hs.session.present THEN hs.session.value ELSE "null",
       NumberText(IF hs.remaining.present
                  THEN ParseInt(hs.remaining.value) ELSE NaN) >>

\* Lines 45-46: the metadata of the response, <<sessionId, remainingVents>>.
Metadata(hs) ==
    << GetOr(hs.session, "", ""),
       NumberText(ParseInt(GetOr(hs.remaining, <<>>, <<"0">>))) >>

\* The body of the for loop, for one line: the callback it makes, if any, and
\* how the loop goes on: "next", "return" or "throw".
HandleLine(line, metadata) ==
    IF StartsWith(line, DataPrefix)
    THEN LET data == Slice(line, 6)
         IN  IF data = DoneText THEN [calls |-> <<Call("onComplete", metadata)>>, go |-> "return"]
             ELSE IF data = ErrorText THEN [calls |-> <<>>, go |-> "throw"]
             ELSE [calls |-> <<Call("onToken", data)>>, go |-> "next"]
    ELSE [calls |-> <<>>, go |-> "next"]

RECURSIVE ForLines(_, _)
\* for (const line of lines): the callbacks made and how the loop ends.
ForLines(lines, metadata) ==
    IF lines = <<>> THEN [calls |-> <<>>, go |-> "next"]
    ELSE LET first == HandleLine(Head(lines), metadata)
         IN  IF first.go # "next" THEN first
             ELSE LET rest == ForLines(Tail(lines), metadata)
                  IN  [calls |-> first.calls \o rest.calls, go |-> rest.go]

-----------------------------------------------------------------------------
(* Page: the handlers of app/vent/page.tsx, as functions of the React      *)
(* state.  A handler that calls streamVent runs up to the call here; the   *)
(* call goes on in the callbacks below.                                    *)

Message(role, content) == [role |-> role, content |-> content]

\* `Sorry, something went wrong: ${error}`
SorryMessage(error) ==
    <<"Sorry", ",", " ", "something", " ", "went", " ", "wrong", ":", " ">> \o error

\* error.includes("Daily vent limit") || error.includes("limit reached")
IsRateLimitError(error) ==
    \/ Includes(error, <<"Daily", " ", "vent", " ", "limit">>)
    \/ Includes(error, <<"limit", " ", "reached">>)

\* setVentMode(m) of the mode buttons and of Back, which unmounts the input.
SetVentMode(p, m) == [p EXCEPT !.ventMode = m, !.inputIsRecording = FALSE]

\* The nine setters of handleNewVent, and of handleAnotherVent.
Reset(p) ==
    [p EXCEPT !.ventText = <<>>, !.isReleased = FALSE, !.aiResponse = <<>>,
              !.ventMode = "null", !.isRecording = FALSE, !.recordingDuration = 0,
              !.isChatMode = FALSE, !.messages = <<>>, !.chatInput = <<>>,
              !.inputIsRecording = FALSE]

HandleNewVent(p) == Reset(p)

HandleAnotherVent(p) == Reset(p)

\* handleRelease, after its guard and before streamVent.
ReleaseStart(p) == [p EXCEPT !.isLoading = TRUE, !.isReleased = TRUE, !.aiResponse = <<>>]

HandleVoiceStart(p) == [p EXCEPT !.isRecording = TRUE, !.inputIsRecording = TRUE]

\* handleVoiceStop before streamVent; the input has stopped recording.
VoiceStopStart(p, duration) ==
    LET q == [p EXCEPT !.isRecording = FALSE, !.recordingDuration = duration,
                       !.inputIsRecording = FALSE]
    IN  IF duration > 0
        THEN [q EXCEPT !.isLoading = TRUE, !.isReleased = TRUE, !.aiResponse = <<>>]
        ELSE q

\* `[Voice vent recorded for ${duration.toFixed(1)} seconds]`, whole seconds.
VoiceContent(duration) ==
    <<"[", "Voice", " ", "vent", " ", "recorded", " ", "for", " ",
      ToString(duration), ".", "0", " ", "seconds", "]">>

HandleContinue(p) ==
    [p EXCEPT !.messages = <<Message("user", p.ventText), Message("assistant", p.aiResponse)>>,
              !.isChatMode = TRUE,
              !.chatInput = <<>>]

\* handleSendMessage, after its guard and before streamVent.
SendStart(p) ==
    [p EXCEPT !.chatInput = <<>>,
              !.messages = Append(@, Message("user", Trim(p.chatInput))),
              !.isLoading = TRUE]

RECURSIVE JoinWith(_, _)
\* strs.join(sep)
JoinWith(strs, sep) ==
    IF strs = <<>> THEN <<>>
    ELSE IF Len(strs) = 1 THEN strs[1]
    ELSE strs[1] \o sep \o JoinWith(Tail(strs), sep)

\* fullContext: the conversation so far and the new message.
FullContext(p) ==
    JoinWith([i \in 1..Len(p.messages) |->
                 <<IF p.messages[i].role = "user" THEN "User" ELSE "VentVault", ":", " ">>
                     \o p.messages[i].content],
             <<NL, NL>>)
        \o <<NL, NL, "User", ":", " ">> \o Trim(p.chatInput)

(* The callbacks.  st is the React state and the closure of one call.      *)

\* onToken of handleRelease and of handleVoiceStop.
VentOnToken(st, token) == [st EXCEPT !.page.aiResponse = @ \o token]

\* onComplete of the three handlers.
OnComplete(st) == [st EXCEPT !.page.isLoading = FALSE]

\* An onError that leaves the page loading.
VentOnErrorStillLoading(st, error) ==
    IF IsRateLimitError(error)
    THEN [st EXCEPT !.page.isReleased = FALSE, !.page.showRateLimitModal = TRUE]
    ELSE [st EXCEPT !.page.aiResponse = SorryMessage(error)]

\* onError of handleRelease and of handleVoiceStop.
VentOnError(st, error) ==
    IF IsRateLimitError(error)
    THEN [st EXCEPT !.page.isLoading = FALSE, !.page.isReleased = FALSE,
                    !.page.showRateLimitModal = TRUE]
    ELSE [st EXCEPT !.page.isLoading = FALSE, !.page.aiResponse = SorryMessage(error)]

\* onToken of handleSendMessage.
ChatOnToken(st, token) ==
    LET acc  == st.cl.acc \o token
        prev == st.page.messages
        n    == Len(prev)
        msg  == Message("assistant", acc)
    IN  [st EXCEPT !.cl.acc = acc,
                   !.page.messages =
                       IF n > 0 /\ prev[n].role = "assistant" /\ n > st.cl.base + 1
                       THEN [prev EXCEPT ![n] = msg]
                       ELSE Append(prev, msg)]

\* onError of handleSendMessage.
ChatOnError(st, error) ==
    IF IsRateLimitError(error)
    THEN [st EXCEPT !.page.isLoading = FALSE, !.page.showRateLimitModal = TRUE]
    ELSE [st EXCEPT !.page.isLoading = FALSE,
                    !.page.messages = Append(@, Message("assistant", SorryMessage(error)))]

\* One callback, made by streamVent, run by the handler that made the call.
ApplyCall(st, c) ==
    IF c.cb = "onToken"
    THEN IF st.cl.kind = "chat" THEN ChatOnToken(st, c.arg) ELSE VentOnToken(st, c.arg)
    ELSE IF c.cb = "onComplete" THEN OnComplete(st)
    ELSE IF st.cl.kind = "chat" THEN ChatOnError(st, c.arg) ELSE VentOnError(st, c.arg)

RECURSIVE ApplyCalls(_, _)
ApplyCalls(st, cs) ==
    IF cs = <<>> THEN st ELSE ApplyCalls(ApplyCall(st, Head(cs)), Tail(cs))

\* Lines 64-66 with the incomplete line of the chunk before forgotten.
ReadLoopNoCarry(st, buf, chunk, metadata) ==
    LET lines == Split(chunk, NL)
        loop  == ForLines(Front(lines), metadata)
        made  == loop.calls \o
                   (IF loop.go = "throw"
                    THEN <<Call("onError", CatchMessage(Error(LLMStreamingError)))>>
                    ELSE <<>>)
    IN  [buffer |-> lines[Len(lines)], calls |-> made, go |-> loop.go,
         st |-> ApplyCalls(st, made)]

\* Lines 64-90 of streamVent for one chunk: the buffer it leaves, the
\* callbacks it makes, whether it goes on reading, and what they do.
ReadLoop(st, buf, chunk, metadata) ==
    LET lines == Split(buf \o chunk, NL)
        loop  == ForLines(Front(lines), metadata)
        made  == loop.calls \o
                   (IF loop.go = "throw"
                    THEN <<Call("onError", CatchMessage(Error(LLMStreamingError)))>>
                    ELSE <<>>)
    IN  [buffer |-> lines[Len(lines)], calls |-> made, go |-> loop.go,
         st |-> ApplyCalls(st, made)]

-----------------------------------------------------------------------------
(* One call of streamVent, read in chunks of any size.                     *)

\* Tokens of the upstream LLM: a word, a word after a blank, a paragraph break.
TokenTexts == { <<"H", "i">>, <<" ", "u">>, <<NL, NL>> }

\* The token sequences of at most n tokens.
TokenSeqs(n) == UNION {[1..k -> TokenTexts] : k \in 0..n}

\* The relay's SSE framing of one data line.
Frame(data) == DataPrefix \o data \o <<NL, NL>>

\* How a response stream ends: with a sentinel, with the connection dropped,
\* or with a sentinel that is not the end of what the client receives.
Terminals == {"[DONE]", "[ERROR]", "dropped", "[DONE] and more", "[ERROR] and more"}

\* The response body of a stream: a data line per token and its end.
Body(tokens, term) ==
    Join([i \in 1..Len(tokens) |-> Frame(tokens[i])])
        \o (IF term \in {"[DONE]", "[DONE] and more"} THEN Frame(DoneText)
            ELSE IF term \in {"[ERROR]", "[ERROR] and more"} THEN Frame(ErrorText)
            ELSE <<>>)
        \o (IF term \in {"[DONE] and more", "[ERROR] and more"}
            THEN Frame(<<"H", "i">>) ELSE <<>>)

\* X-Remaining-Vents of the response to the request counted as the count-th
\* of its identity's window.
RemainingVents(count, id) == TierLimit(id) - count

RECURSIVE Str(_)
\* A natural number in decimal digits.
Str(n) == IF n < 10 THEN <<Digits[n + 1]>> ELSE Str(n \div 10) \o <<Digits[(n % 10) + 1]>>

\* The accepted requests whose responses are looked at: the first and the
\* last of each identity's window.
Served == {[id |-> id, count |-> c] : id \in Identities, c \in {1}} \cup
          {[id |-> id, count |-> TierLimit(id)] : id \in Identities}

\* The headers of the response to an accepted request, and of a response that
\* reaches the client without them.
HeadersOf(served) ==
    [session |-> Present("s1"), remaining |-> Present(Str(RemainingVents(served.count, served.id)))]
ResponseHeaders == {HeadersOf(served) : served \in Served} \cup {NoHeaders}

\* What fetch can do: a response that streams, one without a body, the 429
\* of the rate limiter, a server error, and the backend being offline.
Streaming == Response(200, TRUE)
Outcomes ==
    { Streaming, Response(200, FALSE), Response(429, TRUE), Response(500, TRUE),
      Rejects(Error(FailedToFetch)), Rejects(NotAnError) }

\* The text of the vent, and of the follow-up message.
VentWords == <<"s", "a", "d">>
ChatWords == <<"w", "h", "y">>

\* The page when each handler has made its call of streamVent.
PageReleased == ReleaseStart([SetVentMode(InitialPage, "text") EXCEPT !.ventText = VentWords])
PageVoiced == VoiceStopStart(HandleVoiceStart(SetVentMode(InitialPage, "voice")), 3)
PageInChat ==
    HandleContinue([PageReleased EXCEPT !.aiResponse = <<"H", "i">>, !.isLoading = FALSE])
PageSent == SendStart([PageInChat EXCEPT !.chatInput = ChatWords])

Callers ==
    { [page |-> PageReleased, cl |-> Closure("release", VentWords, 0)],
      [page |-> PageVoiced,   cl |-> Closure("voice", VoiceContent(3), 0)],
      [page |-> PageSent,
       cl   |-> Closure("chat", FullContext([PageInChat EXCEPT !.chatInput = ChatWords]),
                        Len(PageInChat.messages))] }

\* Lines 29-54 and 88-90: fetch fails, or the response is refused; the catch
\* clause reports it.
FetchFails ==
    /\ cpc = "start"
    /\ BeforeStream(outcome).thrown
    /\ LET c  == Call("onError", CatchMessage(BeforeStream(outcome)))
           st == ApplyCall([page |-> page, cl |-> closure], c)
       IN  /\ calls' = Append(calls, c)
           /\ page' = st.page
           /\ closure' = st.cl
    /\ cpc' = "returned"
    /\ UNCHANGED <<outcome, headers, upstream, terminal, wire, buffer>>

\* Lines 29-56: the response is accepted and its body is about to be read.
FetchResponds ==
    /\ cpc = "start"
    /\ ~BeforeStream(outcome).thrown
    /\ wire' = Body(upstream, terminal)
    /\ buffer' = <<>>
    /\ cpc' = "reading"
    /\ UNCHANGED <<outcome, headers, upstream, terminal, calls, closure, page>>

\* Lines 59-90: reader.read() gives the next n characters of the body.
ReadChunk(n) ==
    /\ cpc = "reading"
    /\ n \in 1..Len(wire)
    /\ LET r == ReadLoop([page |-> page, cl |-> closure], buffer, SubSeq(wire, 1, n),
                         Metadata(headers))
       IN  /\ buffer' = r.buffer
           /\ calls' = calls \o r.calls
           /\ page' = r.st.page
           /\ closure' = r.st.cl
           /\ cpc' = IF r.go = "next" THEN "reading" ELSE "returned"
    /\ wire' = SubSeq(wire, n + 1, Len(wire))
    /\ UNCHANGED <<outcome, headers, upstream, terminal>>

\* Lines 59-61: reader.read() reports the end of the body.
ReadDone ==
    /\ cpc = "reading"
    /\ wire = <<>>
    /\ cpc' = "returned"
    /\ UNCHANGED <<outcome, headers, upstream, terminal, wire, buffer, calls, closure, page>>

\* The server side at rest.
ServerOff ==
    /\ counter = [id \in Identities |-> 0]
    /\ reqs = EmptyBag
    /\ accepted = [id \in Identities |-> 0]
    /\ rejected = [id \in Identities |-> 0]
    /\ observed = [id \in Identities |-> {}]
    /\ repeated = [id \in Identities |-> FALSE]

\* One call of streamVent by one of the handlers, with what the network and
\* the upstream will do.
ClientInit ==
    /\ ServerOff
    /\ SessionOff
    /\ HealthOff
    /\ EarlyOff
    /\ AuthOff
    /\ PrivacyOff
    /\ streams = EmptyBag
    /\ \E caller \in Callers : page = caller.page /\ closure = caller.cl
    /\ outcome \in Outcomes
    /\ upstream \in (IF outcome = Streaming THEN TokenSeqs(MaxUpstream) ELSE {<<>>})
    /\ terminal \in (IF outcome = Streaming THEN Terminals ELSE {"dropped"})
    \* The headers are read only for onComplete: they vary where it is called.
    /\ headers \in (IF outcome = Streaming /\ terminal \in {"[DONE]", "[DONE] and more"}
                    THEN ResponseHeaders ELSE {NoHeaders})
    /\ wire = <<>>
    /\ buffer = <<>>
    /\ calls = <<>>
    /\ cpc = "start"

ClientNext ==
    /\ UNCHANGED <<serverVars, streams, sessionVars, healthVars, earlyVars, authVars, privacyVars>>
    /\ \/ FetchFails
       \/ FetchResponds
       \/ \E n \in 1..Len(wire) : ReadChunk(n)
       \/ ReadDone

ClientSpec == ClientInit /\ [][ClientNext]_vars

-----------------------------------------------------------------------------
(* Claims about streamVent.                                                *)

\* The arguments of the onToken calls, in order.
OnTokenArgs(log) ==
    LET tokenCalls == SelectSeq(log, LAMBDA c : c.cb = "onToken")
    IN  [i \in 1..Len(tokenCalls) |-> tokenCalls[i].arg]

Count(log, cb) == Len(SelectSeq(log, LAMBDA c : c.cb = cb))

\* The argument of the onComplete call.
Completed(log) == SelectSeq(log, LAMBDA c : c.cb = "onComplete")[1].arg

\* C11: the response to the request counted as the count-th of its identity's
\* window carries X-Remaining-Vents = limit - count (1 after the first of two
\* anonymous vents), which is never negative, and onComplete is handed that
\* number as remainingVents; it is handed 0 when the header is absent.
C11_RemainingVents ==
    /\ HeadersOf([id |-> "anon:dev1", count |-> 1]).remaining = Present(<<"1">>)
    /\ (cpc = "returned" /\ Count(calls, "onComplete") = 1)
          => /\ \A served \in Served :
                   headers = HeadersOf(served)
                     => /\ TierLimit(served.id) - served.count >= 0
                        /\ Completed(calls)[2] = ToString(TierLimit(served.id) - served.count)
             /\ ~headers.remaining.present => Completed(calls)[2] = "0"

\* The first of two anonymous vents has streamed to its end.
C11_Witness ==
    /\ cpc = "returned"
    /\ headers = HeadersOf([id |-> "anon:dev1", count |-> 1])
    /\ Len(upstream) = 1
    /\ calls[Len(calls)] = Call("onComplete", <<"s1", "1">>)

\* C7: when streamVent has returned from a response that streamed, it has
\* called onToken with the tokens of the upstream, each once and in their
\* order, so that the concatenation of the arguments is the concatenation of
\* the tokens.
C7_PassThrough ==
    (cpc = "returned" /\ outcome = Streaming)
        => /\ OnTokenArgs(calls) = upstream
           /\ Join(OnTokenArgs(calls)) = Join(upstream)

\* The response stream holds the line data: [ERROR].
ErrorSent == outcome = Streaming /\ terminal \in {"[ERROR]", "[ERROR] and more"}

\* C8: a stream that holds data: [ERROR] makes streamVent call onError once,
\* with "LLM streaming error", as its last callback, after one onToken per
\* data line before the sentinel and none for a line after it, and onComplete
\* never; the page is then not loading and its response, or for a follow-up
\* its last message, is "Sorry, something went wrong: LLM streaming error".
C8_ErrorSentinel ==
    ErrorSent
        => /\ Count(calls, "onComplete") = 0
           /\ Count(calls, "onError") = (IF cpc = "returned" THEN 1 ELSE 0)
           /\ cpc = "returned"
                => /\ calls[Len(calls)]
                        = Call("onError", <<"LLM", " ", "streaming", " ", "error">>)
                   /\ Count(calls, "onToken") = Len(upstream)
                   /\ ~page.isLoading
                   /\ LET sorry == <<"Sorry", ",", " ", "something", " ", "went", " ",
                                     "wrong", ":", " ", "LLM", " ", "streaming", " ", "error">>
                      IN  IF closure.kind = "chat"
                          THEN page.messages[Len(page.messages)] = Message("assistant", sorry)
                          ELSE page.aiResponse = sorry

C8_Witness ==
    /\ cpc = "returned" /\ terminal = "[ERROR] and more"
    /\ closure.kind = "release"
    /\ calls = <<Call("onToken", <<"H", "i">>), Call("onError", LLMStreamingError)>>
    /\ page.aiResponse = SorryMessage(LLMStreamingError) /\ ~page.isLoading

\* The message the claim gives for a request that fails before streaming.
C9_Message(o) ==
    IF o.kind = "rejects"
    THEN IF o.thrown.isError THEN o.thrown.message
         ELSE <<"Failed", " ", "to", " ", "connect", " ", "to", " ", "server">>
    ELSE IF o.status = 429
         THEN <<"Daily", " ", "vent", " ", "limit", " ", "reached", ".", " ",
                "Sign", " ", "in", " ", "for", " ", "more", " ", "vents", ".">>
         ELSE <<"API", " ", "error", ":", " ", ToString(o.status)>>

\* C9: a request that fails before streaming starts makes streamVent call
\* onError exactly once and onToken and onComplete never; the message is the
\* daily-limit text for 429, "API error: <status>" for another status that is
\* not 2xx, and for a network failure the message of what was thrown or
\* "Failed to connect to server".
C9_FailureBeforeStreaming ==
    (outcome \in Outcomes /\ outcome # Streaming)
        => /\ cpc \in {"start", "returned"}
           /\ cpc = "start" => calls = <<>>
           /\ cpc = "returned"
                => /\ Count(calls, "onError") = 1 /\ Len(calls) = 1
                   /\ (outcome.kind = "rejects" \/ ~Ok(outcome.status))
                         => calls[1].arg = C9_Message(outcome)

C9_Witness ==
    /\ cpc = "returned"
    /\ outcome = Response(500, TRUE)
    /\ calls = <<Call("onError", <<"API", " ", "error", ":", " ", "500">>)>>

\* What the client has received of the response body.
Received ==
    LET body == Body(upstream, terminal)
    IN  SubSeq(body, 1, Len(body) - Len(wire))

\* streamVent reading text as one chunk, from an empty buffer.
InOneChunk(text) == ReadLoop([page |-> page, cl |-> closure], <<>>, text, Metadata(headers))

\* C18: however the response text is split into chunks, streamVent has made
\* the callbacks it makes when what it has received arrives as one chunk: the
\* same onToken arguments in the same order and the same terminal callback;
\* at the end of the body that is the whole text.  While it reads, its buffer
\* is the incomplete last line of what it has received, and a line that does
\* not start with "data: " makes no callback.
C18_ChunkingIndependent ==
    /\ (outcome = Streaming /\ cpc \in {"reading", "returned"})
          => LET whole == InOneChunk(Received)
             IN  /\ calls = whole.calls
                 /\ cpc = "reading" => buffer = whole.buffer /\ whole.go = "next"
                 /\ (cpc = "returned" /\ wire # <<>>) => whole.go # "next"
    /\ \A line \in {<<>>, <<"d", "a", "t", "a", ":">>, <<":", " ", "H", "i">>} :
          HandleLine(line, Metadata(headers)) = [calls |-> <<>>, go |-> "next"]

\* A chunk has ended inside the sentinel: the token before it was handed on
\* and the half line is carried over.
C18_Witness ==
    /\ cpc = "reading"
    /\ upstream = << <<"H", "i">> >>
    /\ calls = <<Call("onToken", <<"H", "i">>)>>
    /\ buffer = <<"d", "a", "t", "a", ":", " ", "[", "D", "O">>
    /\ wire = <<"N", "E", "]", NL, NL>>

\* The terminal callbacks made: the calls of onComplete and of onError.
TerminalCalls(log) == SelectSeq(log, LAMBDA c : c.cb \in {"onComplete", "onError"})

\* C17: when streamVent has returned it has made exactly one terminal
\* callback, onComplete or onError, as its last callback (no onToken follows
\* it), and the page is no longer loading; also when the body of the response
\* has ended without a [DONE] or [ERROR] line.
C17_OneTerminalCallback ==
    cpc = "returned"
        => /\ Len(TerminalCalls(calls)) = 1
           /\ calls # <<>> /\ calls[Len(calls)].cb \in {"onComplete", "onError"}
           /\ ~page.isLoading

-----------------------------------------------------------------------------
(* The vent page: what the user can do with what is rendered, and the      *)
(* calls of streamVent in flight, each read a data line at a time.         *)

\* What the user types: nothing, a blank, words.
VentTexts == {<<>>, <<" ">>, VentWords}
ChatTexts == {<<>>, ChatWords}

\* Seconds between the two clicks on the record button.
Durations == {0, 3}

\* What fetch does for the calls of the page.
PageOutcomes == {Response(429, TRUE), Response(500, TRUE)}

\* What is rendered (the conditions of the JSX).
ModeChoice == page.ventMode = "null"
TextView == page.ventMode = "text" /\ ~page.isReleased
VoiceView == page.ventMode = "voice" /\ ~page.isReleased
ResponseView == page.isReleased /\ ~page.isChatMode
ResponseButtons == ResponseView /\ ~page.isLoading /\ page.aiResponse # <<>>
ChatView == page.isChatMode

InFlightStreams == BagToSet(streams)

\* ChatInputSubmit: the button's disabled attribute.
SubmitDisabled(value, loading) == ~loading /\ Trim(value) = <<>>

\* A call of streamVent just made.  `current` is history: the call is the
\* one of the vent or follow-up on the screen, not of one the user has left.
NewStream(cl) == [cl |-> cl, pc |-> "fetching", made |-> 0, current |-> TRUE]

NotCurrent(s) == [s EXCEPT !.current = FALSE]

\* The calls in flight when the user starts another vent or leaves this one.
Left(bag) == BagOfAll(NotCurrent, bag)

Starts(cl) ==
    streams' = (IF cl.kind = "chat" THEN streams ELSE Left(streams))
                  (+) SetToBag({NewStream(cl)})

CanStart == BagCardinality(streams) < MaxInFlight

\* One of the two mode buttons.
ChooseMode(m) ==
    /\ ModeChoice
    /\ page' = SetVentMode(page, m)
    /\ UNCHANGED streams

\* The Back button of the two input views.
Back ==
    /\ TextView \/ VoiceView
    /\ page' = SetVentMode(page, "null")
    /\ UNCHANGED streams

\* onChange of the vent's text area.
TypeVent(text) ==
    /\ TextView
    /\ text # page.ventText
    /\ page' = [page EXCEPT !.ventText = text]
    /\ UNCHANGED streams

\* handleRelease without its guard on the trimmed text.
HandleReleaseUnguarded ==
    /\ TextView
    /\ CanStart
    /\ page' = ReleaseStart(page)
    /\ Starts(Closure("release", page.ventText, 0))

\* handleRelease: Enter in the text area, or the submit button.
HandleRelease ==
    /\ TextView
    /\ Trim(page.ventText) # <<>>
    /\ CanStart
    /\ page' = ReleaseStart(page)
    /\ Starts(Closure("release", page.ventText, 0))

\* onStop of the two chat inputs: the submit button while loading.
Stop ==
    /\ TextView \/ ChatView
    /\ page.isLoading
    /\ page' = [page EXCEPT !.isLoading = FALSE]
    /\ UNCHANGED streams

\* handleToggle of the voice input, not recording: handleVoiceStart.
VoiceStart ==
    /\ VoiceView
    /\ ~page.inputIsRecording
    /\ page' = HandleVoiceStart(page)
    /\ UNCHANGED streams

\* handleToggle of the voice input, recording: handleVoiceStop.
HandleVoiceStop(duration) ==
    /\ VoiceView
    /\ page.inputIsRecording
    /\ duration > 0 => CanStart
    /\ page' = VoiceStopStart(page, duration)
    /\ IF duration > 0
       THEN Starts(Closure("voice", VoiceContent(duration), 0))
       ELSE UNCHANGED streams

\* The button Another vent.
AnotherVent ==
    /\ ResponseButtons
    /\ page' = HandleAnotherVent(page)
    /\ streams' = Left(streams)

\* The button Continue.
Continue ==
    /\ ResponseButtons
    /\ page' = HandleContinue(page)
    /\ UNCHANGED streams

\* onChange of the follow-up's text area.
TypeChat(text) ==
    /\ ChatView
    /\ text # page.chatInput
    /\ page' = [page EXCEPT !.chatInput = text]
    /\ UNCHANGED streams

\* handleSendMessage: Enter in the follow-up's text area, or the submit button.
HandleSendMessage ==
    /\ ChatView
    /\ ~(Trim(page.chatInput) = <<>> \/ page.isLoading)
    /\ Len(page.messages) < MaxMessages
    /\ CanStart
    /\ page' = SendStart(page)
    /\ Starts(Closure("chat", FullContext(page), Len(page.messages)))

\* The New vent button of the sidebar.
NewVent ==
    /\ ChatView
    /\ page' = HandleNewVent(page)
    /\ streams' = Left(streams)

\* onClose of the rate-limit modal.
CloseModal ==
    /\ page.showRateLimitModal
    /\ page' = [page EXCEPT !.showRateLimitModal = FALSE]
    /\ UNCHANGED streams

\* Lines 29-54 and 88-90 for the call s: it ends in the catch clause.
StreamFetchFails(s, o) ==
    /\ s.pc = "fetching"
    /\ BeforeStream(o).thrown
    /\ page' = ApplyCall([page |-> page, cl |-> s.cl],
                         Call("onError", CatchMessage(BeforeStream(o)))).page
    /\ streams' = streams (-) SetToBag({s})

\* Lines 29-56 for the call s: its response streams.
StreamFetchResponds(s) ==
    /\ s.pc = "fetching"
    /\ streams' = (streams (-) SetToBag({s})) (+) SetToBag({[s EXCEPT !.pc = "reading"]})
    /\ UNCHANGED page

\* Lines 59-90 for the call s: it reads one data line, a token or a sentinel.
StreamReadFrame(s, data) ==
    /\ s.pc = "reading"
    /\ data \notin {DoneText, ErrorText} => s.made < MaxStreamTokens
    /\ LET r == ReadLoop([page |-> page, cl |-> s.cl], <<>>, Frame(data), Metadata(NoHeaders))
       IN  /\ page' = r.st.page
           /\ streams' =
                 IF r.go = "next"
                 THEN (streams (-) SetToBag({s}))
                          (+) SetToBag({[s EXCEPT !.cl = r.st.cl, !.made = @ + 1]})
                 ELSE streams (-) SetToBag({s})

\* Lines 59-61 for the call s: the body ends without a sentinel.
StreamReadDone(s) ==
    /\ s.pc = "reading"
    /\ streams' = streams (-) SetToBag({s})
    /\ UNCHANGED page

PageInit ==
    /\ ServerOff
    /\ ClientOff
    /\ PageOff
    /\ SessionOff
    /\ HealthOff
    /\ EarlyOff
    /\ AuthOff
    /\ PrivacyOff

PageNext ==
    /\ UNCHANGED <<serverVars, clientVars, sessionVars, healthVars, earlyVars, authVars, privacyVars>>
    /\ \/ \E m \in {"text", "voice"} : ChooseMode(m)
       \/ Back
       \/ \E text \in VentTexts : TypeVent(text)
       \/ HandleRelease
       \/ Stop
       \/ VoiceStart
       \/ \E duration \in Durations : HandleVoiceStop(duration)
       \/ AnotherVent
       \/ Continue
       \/ \E text \in ChatTexts : TypeChat(text)
       \/ HandleSendMessage
       \/ NewVent
       \/ CloseModal
       \/ \E s \in InFlightStreams, o \in PageOutcomes : StreamFetchFails(s, o)
       \/ \E s \in InFlightStreams : StreamFetchResponds(s)
       \/ \E s \in InFlightStreams, data \in {<<"H", "i">>, DoneText, ErrorText} :
              StreamReadFrame(s, data)
       \/ \E s \in InFlightStreams : StreamReadDone(s)

PageSpec == PageInit /\ [][PageNext]_vars

-----------------------------------------------------------------------------
(* Claims about the vent page.                                             *)

\* C10: when the call of a first vent, typed or spoken, ends with the
\* daily-limit error of a 429 on a page whose rate-limit modal was closed,
\* the page is not loading, the modal is open, isReleased is false, the input
\* view of the vent is the one rendered, with the text that was released still
\* in it, and aiResponse is empty; and the response never holds the text of
\* the limit error.
C10_FirstVentRejected ==
    /\ [][\A s \in InFlightStreams :
             (/\ s.cl.kind \in {"release", "voice"}
              /\ ~page.showRateLimitModal
              /\ StreamFetchFails(s, Response(429, TRUE)))
                => /\ ~page'.isLoading
                   /\ page'.showRateLimitModal
                   /\ ~page'.isReleased
                   /\ page'.aiResponse = <<>>
                   /\ s.cl.kind = "release"
                         => page'.ventMode = "text" /\ page'.ventText = s.cl.content
                   /\ s.cl.kind = "voice" => page'.ventMode = "voice"]_vars
    /\ [](~Includes(page.aiResponse, <<"Daily", " ", "vent", " ", "limit">>))

\* The user's messages of the transcript.
UserMessages(p) == SelectSeq(p.messages, LAMBDA m : m.role = "user")

\* A step that submits nothing: no call of streamVent starts, the page does
\* not become released or loading, and the user has no more messages.
NoSubmit ==
    /\ BagCardinality(streams') <= BagCardinality(streams)
    /\ page'.isReleased => page.isReleased
    /\ page'.isLoading => page.isLoading
    /\ Len(UserMessages(page')) <= Len(UserMessages(page))

EmptyVentInput == TextView /\ Trim(page.ventText) = <<>>
EmptyChatInput == ChatView /\ Trim(page.chatInput) = <<>>

\* Every input on the screen is a text input whose trimmed value is empty.
OnlyEmptyInputs ==
    /\ TextView \/ ChatView
    /\ ~VoiceView
    /\ TextView => EmptyVentInput
    /\ ChatView => EmptyChatInput

RECURSIVE KindCount(_, _)
\* The number of calls in the bag made by the handler of that kind.
KindCount(bag, kind) ==
    IF bag = EmptyBag THEN 0
    ELSE LET s == CHOOSE x \in BagToSet(bag) : TRUE
         IN  (IF s.cl.kind = kind THEN 1 ELSE 0) + KindCount(bag (-) SetToBag({s}), kind)

\* C14 as stated: while the trimmed value of the input is empty the submit
\* button is disabled, and no request with empty content is in flight.
C14_EmptyInputDisablesButton ==
    /\ EmptyVentInput => SubmitDisabled(page.ventText, page.isLoading)
    /\ EmptyChatInput => SubmitDisabled(page.chatInput, page.isLoading)
    /\ \A s \in InFlightStreams : Trim(s.cl.content) # <<>>

\* C14, amended: while the trimmed value of the input is empty and nothing is
\* loading the submit button is disabled (while loading it is the stop
\* button); with an empty vent input no step starts a request of
\* handleRelease, with an empty follow-up input no step starts a request of
\* handleSendMessage or adds a message of the user, with only empty inputs on
\* the screen no step makes the page loading or released; and no request with
\* empty content is ever in flight.
C14_EmptyNeverSubmitted ==
    /\ []((EmptyVentInput /\ ~page.isLoading) => SubmitDisabled(page.ventText, page.isLoading))
    /\ []((EmptyChatInput /\ ~page.isLoading) => SubmitDisabled(page.chatInput, page.isLoading))
    /\ [](\A s \in InFlightStreams : Trim(s.cl.content) # <<>>)
    /\ [][EmptyVentInput
              => KindCount(streams', "release") <= KindCount(streams, "release")]_vars
    /\ [][EmptyChatInput
              => /\ KindCount(streams', "chat") <= KindCount(streams, "chat")
                 /\ Len(UserMessages(page')) <= Len(UserMessages(page))]_vars
    /\ [][OnlyEmptyInputs => NoSubmit]_vars

\* Only a blank has been typed: the button is disabled and nothing was sent.
C14_Witness ==
    /\ TextView
    /\ page.ventText = <<" ">>
    /\ SubmitDisabled(page.ventText, page.isLoading)
    /\ streams = EmptyBag
    /\ ~page.isReleased

\* The call of the vent on the screen is in flight.
CurrentVentStreaming ==
    \E s \in InFlightStreams : s.current /\ s.cl.kind \in {"release", "voice"}

\* C15: the buttons "Another vent" and "Continue" are not shown, and
\* handleContinue does not run, while the call of streamVent made for the
\* vent on the screen has not made its terminal callback.
C15_ButtonsAfterStream ==
    /\ []((ResponseButtons /\ ~page.showRateLimitModal) => ~CurrentVentStreaming)
    /\ [][page'.isChatMode /\ ~page.isChatMode => ~CurrentVentStreaming]_vars

-----------------------------------------------------------------------------
(* The session-aware client: streamVent with the session and user ids, the *)
(* consent functions, and the browser's storage they write.                *)

\* The session id the server makes for the n-th request, and the user's id.
Sid(n) == <<"sid", ToString(n)>>
UserId == <<"uid", "1">>

\* What getAuthToken gives: no token, or the token of the signed-in user.
AuthTokens == {<<>>, <<"jwt">>}

\* Lines 68-91 with the Authorization header set whatever the getter returns.
RequestBearerAlways(store, content, token) ==
    [ session       |-> store.ventvault_session_id,
      authorization |-> <<"Bearer", " ">> \o token,
      body          |-> content ]

\* Lines 68-91: the request sent, with the session id read from the storage
\* and the token of the user.
Request(store, content, token) ==
    [ session       |-> store.ventvault_session_id,   \* <<>>: header not set
      authorization |-> IF token # <<>> THEN <<"Bearer", " ">> \o token ELSE <<>>,
      body          |-> content ]

\* The X-Session-ID and X-User-ID of the response to the n-th request: the
\* session id of the request, or a new one for a request without; the user id
\* for a signed-in user; or a response without these headers.
SessionHeaders(n, request) ==
    { [session |-> sid, user |-> uid] :
        sid \in {IF request.session # <<>> THEN request.session ELSE Sid(n), <<>>},
        uid \in {<<>>} \cup (IF request.authorization # <<>> THEN {UserId} ELSE {}) }

\* Lines 101-107 with the request's content kept as well.
AfterResponseKeepsDraft(store, hs, request) ==
    [store EXCEPT !.ventvault_session_id = IF hs.session # <<>> THEN hs.session ELSE @,
                  !.ventvault_user_id = IF hs.user # <<>> THEN hs.user ELSE request.body]

\* Lines 101-107: the ids of the response are stored.
AfterResponse(store, hs, request) ==
    [store EXCEPT !.ventvault_session_id = IF hs.session # <<>> THEN hs.session ELSE @,
                  !.ventvault_user_id = IF hs.user # <<>> THEN hs.user ELSE @]

\* clearSession, and the removal in handleAnotherVent.
RemoveSessionId(store) == [store EXCEPT !.ventvault_session_id = <<>>]

\* localStorage.clear()
ClearLocal(store) ==
    [store EXCEPT !.ventvault_user_id = <<>>, !.ventvault_consent = <<>>,
                  !.ventvault_consent_shown = <<>>]

BoolText(b) == IF b THEN "true" ELSE "false"

\* JSON.stringify(consents)
Stringify(consents) ==
    << "analytics", BoolText(consents.analytics), "location", BoolText(consents.location),
       "save_history", BoolText(consents.save_history),
       "marketing", BoolText(consents.marketing) >>

\* The choices of the consent banner: accept all, reject all.
ConsentChoices ==
    { [analytics |-> b, location |-> b, save_history |-> FALSE, marketing |-> FALSE] :
        b \in BOOLEAN }

SetLocalConsent(store, consents) == [store EXCEPT !.ventvault_consent = Stringify(consents)]

MarkConsentShown(store) == [store EXCEPT !.ventvault_consent_shown = <<"true">>]

\* The contents of the requests: a vent, and a follow-up with its context.
SessionContents == {VentWords, VentWords \o <<NL>> \o ChatWords}

\* Lines 67-91: streamVent is called and sends its request.
SessionStart(content, token) ==
    /\ Len(sent) < MaxCalls
    /\ Cardinality(scalls) < MaxInFlight
    /\ LET request == Request(storage, content, token)
       IN  /\ sent' = Append(sent, request)
           /\ scalls' = scalls \cup {[n |-> Len(sent) + 1, request |-> request,
                                      pc |-> "fetching", made |-> 0]}
    /\ startedOver' = FALSE
    /\ UNCHANGED storage

\* Lines 86-98, 149-152: fetch rejects or the response is not 2xx.
SessionFails(c, o) ==
    /\ c.pc = "fetching"
    /\ BeforeStream(o).thrown
    /\ scalls' = scalls \ {c}
    /\ UNCHANGED <<storage, sent, startedOver>>

\* Lines 93-117: a 2xx response; its ids are stored.
SessionResponds(c, hs) ==
    /\ c.pc = "fetching"
    /\ storage' = AfterResponse(storage, hs, c.request)
    /\ scalls' = (scalls \ {c}) \cup {[c EXCEPT !.pc = "reading"]}
    /\ UNCHANGED <<sent, startedOver>>

\* Lines 119-148: a token is read and handed to onToken.
SessionReadsToken(c) ==
    /\ c.pc = "reading"
    /\ c.made < MaxStreamTokens
    /\ scalls' = (scalls \ {c}) \cup {[c EXCEPT !.made = @ + 1]}
    /\ UNCHANGED <<storage, sent, startedOver>>

\* Lines 119-152: the stream ends, by a sentinel or by the end of the body.
SessionEnds(c) ==
    /\ c.pc = "reading"
    /\ scalls' = scalls \ {c}
    /\ UNCHANGED <<storage, sent, startedOver>>

\* clearSession of the client.
ClearSession ==
    /\ storage' = RemoveSessionId(storage)
    /\ UNCHANGED <<sent, scalls, startedOver>>

\* handleAnotherVent of the page: the session id is removed (line 313) and
\* the page reset; the calls in flight go on.
StartOverAnotherVent ==
    /\ storage' = RemoveSessionId(storage)
    /\ startedOver' = TRUE
    /\ UNCHANGED <<sent, scalls>>

\* handleNewVent of the page: the page is reset, the storage is not touched.
StartOverNewVent ==
    /\ startedOver' = TRUE
    /\ UNCHANGED <<storage, sent, scalls>>

\* The consent banner: a choice is stored and the banner marked as shown.
ConsentGiven(consents) ==
    /\ storage' = MarkConsentShown(SetLocalConsent(storage, consents))
    /\ UNCHANGED <<sent, scalls, startedOver>>

\* The privacy settings: preferences saved.
ConsentSaved(consents) ==
    /\ storage' = SetLocalConsent(storage, consents)
    /\ UNCHANGED <<sent, scalls, startedOver>>

\* The privacy settings: all data deleted.
DataDeleted ==
    /\ storage' = ClearLocal(storage)
    /\ UNCHANGED <<sent, scalls, startedOver>>

SessionInit ==
    /\ ServerOff
    /\ ClientOff
    /\ PageOff
    /\ SessionOff
    /\ HealthOff
    /\ EarlyOff
    /\ AuthOff
    /\ PrivacyOff

SessionNext ==
    /\ UNCHANGED <<serverVars, clientVars, pageVars, healthVars, earlyVars, authVars, privacyVars>>
    /\ \/ \E content \in SessionContents, token \in AuthTokens : SessionStart(content, token)
       \/ \E c \in scalls, o \in PageOutcomes \cup {Rejects(Error(FailedToFetch))} :
             SessionFails(c, o)
       \/ \E c \in scalls : \E hs \in SessionHeaders(c.n, c.request) : SessionResponds(c, hs)
       \/ \E c \in scalls : SessionReadsToken(c)
       \/ \E c \in scalls : SessionEnds(c)
       \/ ClearSession
       \/ StartOverAnotherVent
       \/ StartOverNewVent
       \/ \E consents \in ConsentChoices : ConsentGiven(consents)
       \/ \E consents \in ConsentChoices : ConsentSaved(consents)
       \/ DataDeleted

SessionSpec == SessionInit /\ [][SessionNext]_vars

\* The texts that are vent content: what the requests hold, and the tokens.
ContentTexts == SessionContents \cup {<<"H", "i">>}

-----------------------------------------------------------------------------
(* GET /health, checkHealth and the BackendStatus indicator.               *)

\* The two api clients of the sources.
Clients == {"api-client.ts", "session-aware"}

\* What GET /health gives in each state of the backend: its status when the
\* API is up; when it is down fetch throws, or something in front of it
\* answers with a page that is not JSON or with JSON of another shape.
HealthAnswers(b) ==
    IF b = "healthy" THEN {Json("healthy")}
    ELSE IF b = "degraded" THEN {Json("degraded")}
    ELSE {Threw, NotJson, Json("undefined")}

\* checkHealth of lib/api-client.ts.
CheckHealth(answer) == answer.kind = "json" /\ answer.status = "healthy"

\* checkHealth of the session-aware client with only "healthy" accepted.
CheckHealthHealthyOnly(answer) == answer.kind = "json" /\ answer.status = "healthy"

\* checkHealth of the session-aware client.
CheckHealthSessionAware(answer) ==
    answer.kind = "json" /\ answer.status \in {"healthy", "degraded"}

CheckHealthOf(c, answer) ==
    IF c = "session-aware" THEN CheckHealthSessionAware(answer) ELSE CheckHealth(answer)

\* What BackendStatus renders.
Indicator ==
    IF isHealthy = "null" THEN "nothing"
    ELSE IF isHealthy = "true" THEN "Backend Connected" ELSE "Backend Offline"

Fetching == [pc |-> "fetching", answer |-> NoAnswer]

\* check(): on mount and every 30 seconds a call of checkHealth starts.
Poll ==
    /\ BagCardinality(checks) < MaxChecks
    /\ checks' = checks (+) SetToBag({Fetching})
    /\ UNCHANGED <<backend, client, isHealthy, shown>>

\* The request of a check is answered, or fails.
HealthAnswered(answer) ==
    /\ BagIn(Fetching, checks)
    /\ answer \in HealthAnswers(backend)
    /\ checks' = (checks (-) SetToBag({Fetching}))
                    (+) SetToBag({[pc |-> "answered", answer |-> answer]})
    /\ UNCHANGED <<backend, client, isHealthy, shown>>

\* checkHealth returns and check() sets isHealthy.
CheckCompletes(c) ==
    /\ c.pc = "answered"
    /\ isHealthy' = BoolText(CheckHealthOf(client, c.answer))
    /\ shown' = c.answer
    /\ checks' = checks (-) SetToBag({c})
    /\ UNCHANGED <<backend, client>>

\* The backend or its cache goes down or comes back.
BackendChanges(b) ==
    /\ b # backend
    /\ backend' = b
    /\ UNCHANGED <<client, isHealthy, checks, shown>>

HealthInit ==
    /\ ServerOff
    /\ ClientOff
    /\ PageOff
    /\ SessionOff
    /\ EarlyOff
    /\ AuthOff
    /\ PrivacyOff
    /\ backend \in {"healthy", "degraded", "down"}
    /\ client \in Clients
    /\ isHealthy = "null"
    /\ checks = EmptyBag
    /\ shown = NoAnswer

HealthNext ==
    /\ UNCHANGED <<serverVars, clientVars, pageVars, sessionVars, earlyVars, authVars, privacyVars>>
    /\ \/ Poll
       \/ \E answer \in HealthAnswers(backend) : HealthAnswered(answer)
       \/ \E c \in BagToSet(checks) : CheckCompletes(c)
       \/ \E b \in {"healthy", "degraded", "down"} : BackendChanges(b)

HealthSpec == HealthInit /\ [][HealthNext]_vars

\* The interval fires every 30 seconds, requests end, promises resolve.
HealthFairSpec ==
    /\ HealthSpec
    /\ WF_healthVars(Poll)
    /\ WF_healthVars(\E answer \in HealthAnswers(backend) : HealthAnswered(answer))
    /\ WF_healthVars(\E c \in BagToSet(checks) : CheckCompletes(c))

\* C13: with the cache down and the API up GET /health answers with the
\* status "degraded"; with the session-aware client the indicator shows
\* "Backend Offline" only after a check whose request threw, whose answer was
\* not JSON, or whose status was neither "healthy" nor "degraded", and it
\* shows "Backend Connected" after a check answered "healthy" or "degraded".
C13_DegradedCountsAsUp ==
    /\ HealthAnswers("degraded") = {Json("degraded")}
    /\ client = "session-aware"
         => /\ Indicator = "Backend Offline"
                 => \/ shown.kind \in {"throws", "not json"}
                    \/ shown.kind = "json" /\ shown.status \notin {"healthy", "degraded"}
            /\ Indicator = "Backend Connected"
                 => shown \in {Json("healthy"), Json("degraded")}
            /\ Indicator = "nothing" <=> shown = NoAnswer

\* A check of the session-aware client answered while the cache is down.
C13_Witness ==
    /\ client = "session-aware"
    /\ backend = "degraded"
    /\ shown = Json("degraded")
    /\ Indicator = "Backend Connected"

\* C16: the indicator renders nothing exactly until the first check has
\* completed; when the backend is unreachable the indicator comes to show
\* "Backend Offline", and when the backend is reachable it comes to show
\* "Backend Connected" (unless the backend changes again before).
C16_IndicatorFollowsBackend ==
    /\ [](Indicator = "nothing" <=> shown = NoAnswer)
    /\ (backend = "down") ~> (Indicator = "Backend Offline" \/ backend # "down")
    /\ (backend # "down") ~> (Indicator = "Backend Connected" \/ backend = "down")

\* A streamVent request is sent in this step.
Sends == Len(sent') = Len(sent) + 1

\* A call that has not had its response comes to its end in this step: the
\* request has failed.
Fails == \E c \in scalls : c.pc = "fetching" /\ scalls' = scalls \ {c}

\* C20: every streamVent request carries the stored session id; once a 2xx
\* response has stored a session id, the stored id stays the same until it
\* is removed (clearSession, or removeItem in the page), so that every later
\* request carries it; a failed request leaves the stored id as it is.
C20_SessionContinuity ==
    /\ [][Sends => sent'[Len(sent')].session = storage.ventvault_session_id]_vars
    /\ [][storage.ventvault_session_id # <<>>
            => storage'.ventvault_session_id \in {storage.ventvault_session_id, <<>>}]_vars
    /\ [][Fails => storage'.ventvault_session_id = storage.ventvault_session_id]_vars

\* C21: the first request sent after the user has started over, by Another
\* vent or by New vent of the sidebar, carries no X-Session-ID.
C21_FreshStart ==
    [][(Sends /\ startedOver) => sent'[Len(sent')].session = <<>>]_vars

-----------------------------------------------------------------------------
(* Claims about the streams of the vent page.                              *)

\* C19: at most one stream started by the vent page is in flight at any time,
\* the page is loading whenever one is, and no handler starts a request while
\* an earlier stream has not reached its terminal callback.
C19_OneStreamInFlight ==
    /\ [](BagCardinality(streams) <= 1)
    /\ [](streams # EmptyBag => page.isLoading)
    /\ [][BagCardinality(streams') > BagCardinality(streams) => streams = EmptyBag]_vars

\* The call s makes a step: it reads on, or it ends.
Steps(s) == CopiesIn(s, streams') < CopiesIn(s, streams)

\* C22: no step of a stream started before the page was reset (New vent,
\* Another vent) changes the state of the page: its tokens, its completion
\* and its errors leave messages, aiResponse, isLoading and the rate-limit
\* modal of the new vent as they are.
C22_ResetIsolates ==
    [][\A s \in InFlightStreams : (~s.current /\ Steps(s)) => page' = page]_vars

\* The main views rendered.
ViewsRendered ==
    {v \in {"mode choice", "text", "voice", "response", "chat"} :
        \/ v = "mode choice" /\ ModeChoice
        \/ v = "text" /\ TextView
        \/ v = "voice" /\ VoiceView
        \/ v = "response" /\ ResponseView
        \/ v = "chat" /\ ChatView}

\* C23: in every state of the vent page exactly one of the five main views
\* is rendered; isReleased implies that ventMode is not null, and isChatMode
\* implies isReleased and that ventMode is not null.
C23_OneView ==
    /\ Cardinality(ViewsRendered) = 1
    /\ page.isReleased => page.ventMode # "null"
    /\ page.isChatMode => page.isReleased /\ page.ventMode # "null"

\* The roles of the transcript alternate, from a user message on.
Alternates(msgs) ==
    \A i \in 1..Len(msgs) : msgs[i].role = (IF i % 2 = 1 THEN "user" ELSE "assistant")

\* C24: in chat mode the transcript alternates user and assistant messages
\* from the user message of handleContinue on, and when no stream is in
\* flight every user message has its one assistant message after it: the
\* tokens of a stream update one assistant message, and the end of the stream
\* (completion, [ERROR], rate limit) adds none beside it.
C24_TranscriptAlternates ==
    ChatView
        => /\ Alternates(page.messages)
           /\ streams = EmptyBag => Len(page.messages) % 2 = 0

-----------------------------------------------------------------------------
(* The earlier vent page (ventMode "choice" | "text" | "voice" | null):    *)
(* its handlers, its views and its calls of streamVent.                    *)

EarlyModeChoice == early.ventMode = "null"
EarlyTextView == early.ventMode = "text" /\ ~early.isReleased
EarlyVoiceView == early.ventMode = "voice" /\ ~early.isReleased
EarlyResponseView == early.isReleased

\* The main views rendered.
EarlyViewsRendered ==
    {v \in {"mode choice", "text", "voice", "response"} :
        \/ v = "mode choice" /\ EarlyModeChoice
        \/ v = "text" /\ EarlyTextView
        \/ v = "voice" /\ EarlyVoiceView
        \/ v = "response" /\ EarlyResponseView}

\* The callbacks the two handlers hand to streamVent.
EarlyOnToken(p, token) == [p EXCEPT !.aiResponse = @ \o token]
EarlyOnComplete(p) == [p EXCEPT !.isLoading = FALSE]
EarlyOnError(p, error) == [p EXCEPT !.isLoading = FALSE, !.aiResponse = SorryMessage(error)]

EarlyApplyCall(p, c) ==
    IF c.cb = "onToken" THEN EarlyOnToken(p, c.arg)
    ELSE IF c.cb = "onComplete" THEN EarlyOnComplete(p)
    ELSE EarlyOnError(p, c.arg)

RECURSIVE EarlyApplyCalls(_, _)
EarlyApplyCalls(p, cs) ==
    IF cs = <<>> THEN p ELSE EarlyApplyCalls(EarlyApplyCall(p, Head(cs)), Tail(cs))

\* streamVent reading one chunk from an empty buffer, for the earlier page.
EarlyReadLoop(p, chunk) ==
    LET lines == Split(chunk, NL)
        loop  == ForLines(Front(lines), Metadata(NoHeaders))
        made  == loop.calls \o
                   (IF loop.go = "throw"
                    THEN <<Call("onError", CatchMessage(Error(LLMStreamingError)))>>
                    ELSE <<>>)
    IN  [go |-> loop.go, page |-> EarlyApplyCalls(p, made)]

EarlyStream(kind) == [kind |-> kind, pc |-> "fetching", made |-> 0]

EarlyCanStart == BagCardinality(estreams) < MaxInFlight

\* One of the two mode buttons.
EarlyChooseMode(m) ==
    /\ EarlyModeChoice
    /\ early' = [early EXCEPT !.ventMode = m, !.inputIsRecording = FALSE]
    /\ UNCHANGED estreams

\* Back of the text view: setVentMode("choice").
EarlyBackFromText ==
    /\ EarlyTextView
    /\ early' = [early EXCEPT !.ventMode = "choice"]
    /\ UNCHANGED estreams

\* Back of the voice view: setVentMode(null).
EarlyBackFromVoice ==
    /\ EarlyVoiceView
    /\ early' = [early EXCEPT !.ventMode = "null", !.inputIsRecording = FALSE]
    /\ UNCHANGED estreams

\* onChange of the text area.
EarlyTypeVent(text) ==
    /\ EarlyTextView
    /\ text # early.ventText
    /\ early' = [early EXCEPT !.ventText = text]
    /\ UNCHANGED estreams

\* handleRelease: Enter in the text area, or the submit button.
EarlyHandleRelease ==
    /\ EarlyTextView
    /\ Trim(early.ventText) # <<>>
    /\ EarlyCanStart
    /\ early' = [early EXCEPT !.isLoading = TRUE, !.isReleased = TRUE, !.aiResponse = <<>>]
    /\ estreams' = estreams (+) SetToBag({EarlyStream("release")})

\* onStop of the chat input: the submit button while loading.
EarlyStop ==
    /\ EarlyTextView
    /\ early.isLoading
    /\ early' = [early EXCEPT !.isLoading = FALSE]
    /\ UNCHANGED estreams

\* handleToggle of the voice input, not recording: handleVoiceStart.
EarlyVoiceStart ==
    /\ EarlyVoiceView
    /\ ~early.inputIsRecording
    /\ early' = [early EXCEPT !.isRecording = TRUE, !.inputIsRecording = TRUE]
    /\ UNCHANGED estreams

\* handleToggle of the voice input, recording: handleVoiceStop.
EarlyHandleVoiceStop(duration) ==
    /\ EarlyVoiceView
    /\ early.inputIsRecording
    /\ duration > 0 => EarlyCanStart
    /\ LET q == [early EXCEPT !.isRecording = FALSE, !.recordingDuration = duration,
                              !.inputIsRecording = FALSE]
       IN  early' = IF duration > 0
                    THEN [q EXCEPT !.isLoading = TRUE, !.isReleased = TRUE,
                                   !.aiResponse = <<>>]
                    ELSE q
    /\ estreams' = IF duration > 0 THEN estreams (+) SetToBag({EarlyStream("voice")})
                   ELSE estreams

\* The button Another vent: handleAnotherVent.
EarlyAnotherVent ==
    /\ EarlyResponseView
    /\ early' = [early EXCEPT !.ventText = <<>>, !.isReleased = FALSE, !.aiResponse = <<>>,
                              !.ventMode = "null", !.isRecording = FALSE,
                              !.recordingDuration = 0, !.inputIsRecording = FALSE]
    /\ UNCHANGED estreams

\* streamVent for the call s: it ends in the catch clause.
EarlyFetchFails(s, o) ==
    /\ s.pc = "fetching"
    /\ BeforeStream(o).thrown
    /\ early' = EarlyApplyCall(early, Call("onError", CatchMessage(BeforeStream(o))))
    /\ estreams' = estreams (-) SetToBag({s})

\* streamVent for the call s: its response streams.
EarlyFetchResponds(s) ==
    /\ s.pc = "fetching"
    /\ estreams' = (estreams (-) SetToBag({s})) (+) SetToBag({[s EXCEPT !.pc = "reading"]})
    /\ UNCHANGED early

\* streamVent for the call s: it reads one data line, a token or a sentinel.
EarlyReadFrame(s, data) ==
    /\ s.pc = "reading"
    /\ data \notin {DoneText, ErrorText} => s.made < MaxStreamTokens
    /\ LET r == EarlyReadLoop(early, Frame(data))
       IN  /\ early' = r.page
           /\ estreams' =
                 IF r.go = "next"
                 THEN (estreams (-) SetToBag({s})) (+) SetToBag({[s EXCEPT !.made = @ + 1]})
                 ELSE estreams (-) SetToBag({s})

\* streamVent for the call s: the body ends without a sentinel.
EarlyReadDone(s) ==
    /\ s.pc = "reading"
    /\ estreams' = estreams (-) SetToBag({s})
    /\ UNCHANGED early

EarlyInit ==
    /\ ServerOff
    /\ ClientOff
    /\ PageOff
    /\ SessionOff
    /\ HealthOff
    /\ EarlyOff
    /\ AuthOff
    /\ PrivacyOff

EarlyNext ==
    /\ UNCHANGED <<serverVars, clientVars, pageVars, sessionVars, healthVars, authVars, privacyVars>>
    /\ \/ \E m \in {"text", "voice"} : EarlyChooseMode(m)
       \/ EarlyBackFromText
       \/ EarlyBackFromVoice
       \/ \E text \in VentTexts : EarlyTypeVent(text)
       \/ EarlyHandleRelease
       \/ EarlyStop
       \/ EarlyVoiceStart
       \/ \E duration \in Durations : EarlyHandleVoiceStop(duration)
       \/ EarlyAnotherVent
       \/ \E s \in BagToSet(estreams), o \in PageOutcomes : EarlyFetchFails(s, o)
       \/ \E s \in BagToSet(estreams) : EarlyFetchResponds(s)
       \/ \E s \in BagToSet(estreams), data \in {<<"H", "i">>, DoneText, ErrorText} :
              EarlyReadFrame(s, data)
       \/ \E s \in BagToSet(estreams) : EarlyReadDone(s)

EarlySpec == EarlyInit /\ [][EarlyNext]_vars

\* C25: in the earlier page Back from the text-input view leads to the
\* mode-choice screen, where a mode can be chosen, and in every state at
\* least one of the views is rendered.
C25_BackToModeChoice ==
    /\ [][(EarlyTextView /\ early'.ventMode # early.ventMode) => early'.ventMode = "null"]_vars
    /\ [](EarlyViewsRendered # {})
    /\ [](EarlyModeChoice => ENABLED EarlyChooseMode("voice"))

-----------------------------------------------------------------------------
(* Authentication: useAuthApi registers the token getter of the client,    *)
(* streamVent asks it for the token of each request.                       *)

\* null
Null == <<>>

\* What getToken of Clerk resolves to: the session token, or null when there
\* is no session (never when nobody is signed in).
ClerkTokens(signedIn) == IF signedIn THEN {<<"jwt">>, Null} ELSE {Null}

\* The effect of useAuthApi: the getter of this render is registered.
AuthEffect ==
    /\ effectDue
    /\ getAuthToken' = Getter(isSignedIn)
    /\ effectDue' = FALSE
    /\ UNCHANGED <<isSignedIn, acalls, asent>>

\* The user signs in; the hook renders again and its effect is due.
SignIn ==
    /\ ~isSignedIn
    /\ isSignedIn' = TRUE
    /\ effectDue' = TRUE
    /\ UNCHANGED <<getAuthToken, acalls, asent>>

\* The user signs out; the hook renders again and its effect is due.
SignOut ==
    /\ isSignedIn
    /\ isSignedIn' = FALSE
    /\ effectDue' = TRUE
    /\ UNCHANGED <<getAuthToken, acalls, asent>>

\* A request as it is sent, with what its call met: the getter it found, what
\* the getter returned, whether a user was signed in then, and whether the
\* call began with nobody signed in and the getter of that render registered.
Sent(call, returned) ==
    [ request   |-> Request(EmptyStorage, VentWords, returned),
      getter    |-> call.getter,
      returned  |-> returned,
      signedIn  |-> isSignedIn,
      signedOut |-> call.signedOut ]

\* A call of streamVent as it begins.
AuthCall == [getter |-> getAuthToken, signedOut |-> ~isSignedIn /\ ~effectDue]

CanCall == Len(asent) + BagCardinality(acalls) < MaxCalls

\* streamVent with no getter registered, or with a getter that returns null
\* at once (if (!isSignedIn) return null): the request is sent.
AuthCallSends ==
    /\ CanCall
    /\ ~getAuthToken.registered \/ ~getAuthToken.isSignedIn
    /\ asent' = Append(asent, Sent(AuthCall, Null))
    /\ UNCHANGED <<isSignedIn, getAuthToken, effectDue, acalls>>

\* streamVent with a getter that calls getToken: the call waits for it.
AuthCallAwaits ==
    /\ CanCall
    /\ getAuthToken.registered /\ getAuthToken.isSignedIn
    /\ acalls' = acalls (+) SetToBag({AuthCall})
    /\ UNCHANGED <<isSignedIn, getAuthToken, effectDue, asent>>

\* getToken resolves, the getter returns its token and the request is sent.
AuthTokenResolves(c, token) ==
    /\ acalls' = acalls (-) SetToBag({c})
    /\ asent' = Append(asent, Sent(c, token))
    /\ UNCHANGED <<isSignedIn, getAuthToken, effectDue>>

\* The page mounts, with or without a signed-in user; the effect of
\* useAuthApi has not run yet.
AuthInit ==
    /\ ServerOff
    /\ ClientOff
    /\ PageOff
    /\ SessionOff
    /\ HealthOff
    /\ EarlyOff
    /\ PrivacyOff
    /\ isSignedIn \in BOOLEAN
    /\ getAuthToken = NoGetter
    /\ effectDue = TRUE
    /\ acalls = EmptyBag
    /\ asent = <<>>

AuthNext ==
    /\ UNCHANGED <<serverVars, clientVars, pageVars, sessionVars, healthVars, earlyVars, privacyVars>>
    /\ \/ AuthEffect
       \/ SignIn
       \/ SignOut
       \/ AuthCallSends
       \/ AuthCallAwaits
       \/ \E c \in BagToSet(acalls) : \E token \in ClerkTokens(isSignedIn) :
              AuthTokenResolves(c, token)

AuthSpec == AuthInit /\ [][AuthNext]_vars

\* C26: a request carries Authorization: Bearer exactly if its call found a
\* getter registered, a user was signed in and the getter returned a token
\* that is not null; a request whose call began after the sign-out, with the
\* getter registered again, carries no Authorization header.
C26_BearerIffSignedIn ==
    \A i \in 1..Len(asent) :
        /\ asent[i].request.authorization # <<>>
              <=> (asent[i].getter.registered /\ asent[i].signedIn
                     /\ asent[i].returned # Null)
        /\ asent[i].request.authorization # <<>>
              => asent[i].request.authorization = <<"Bearer", " ", "jwt">>
        /\ asent[i].signedOut => asent[i].request.authorization = <<>>

\* A request with the token of the signed-in user, then, after the sign-out
\* and the effect, one without.
C26_Witness ==
    /\ Len(asent) = 2
    /\ asent[1].request.authorization = <<"Bearer", " ", "jwt">>
    /\ asent[2].signedOut /\ asent[2].getter = Getter(FALSE)
    /\ asent[2].request.authorization = <<>>
    /\ ~isSignedIn

-----------------------------------------------------------------------------
(* Privacy: the consent banner and the privacy settings of the vent page,  *)
(* with the consent API they call and the browser storage they write.      *)

\* hasConsentBeenShown() of lib/consent-api.
HasConsentBeenShown(store) == store.ventvault_consent_shown = <<"true">>

\* The mount effect of the banner that looks at no flag.
MountBannerAlways(store) == [InitialBanner EXCEPT !.timer = TRUE]

\* The banner after its mount effect: the timer runs if the flag is not set.
MountBanner(store) == [InitialBanner EXCEPT !.timer = ~HasConsentBeenShown(store)]

\* The handlers of the banner and of the settings that call the API.
BannerHandlers == {"handleAcceptAll", "handleAcceptSelected", "handleRejectAll"}

\* A handler that has called the consent API and waits for it.
Waiting(handler, consents) == [handler |-> handler, consents |-> consents]

CanWait == BagCardinality(pending) < MaxWaiting

\* setTimeout(() => setIsVisible(true), 1500)
BannerTimerFires ==
    /\ banner.timer
    /\ banner' = [banner EXCEPT !.timer = FALSE, !.isVisible = TRUE]
    /\ UNCHANGED <<storage, settings, pending>>

\* Learn more / Hide details, and Customize.
BannerToggleDetails ==
    /\ banner.isVisible
    /\ banner' = [banner EXCEPT !.showDetails = ~@]
    /\ UNCHANGED <<storage, settings, pending>>

\* The two check boxes of the details.
BannerSetConsents(analytics, location) ==
    /\ banner.isVisible /\ banner.showDetails
    /\ Consents(analytics, location) # banner.consents
    /\ analytics = banner.consents.analytics \/ location = banner.consents.location
    /\ banner' = [banner EXCEPT !.consents = Consents(analytics, location)]
    /\ UNCHANGED <<storage, settings, pending>>

\* The three buttons of the banner, up to the call of updateConsents.
BannerChoice(handler) ==
    /\ banner.isVisible
    /\ handler = "handleAcceptAll" <=> ~banner.showDetails
    /\ CanWait
    /\ pending' = pending (+) SetToBag({Waiting(handler,
                      IF handler = "handleAcceptAll" THEN Consents(TRUE, TRUE)
                      ELSE IF handler = "handleRejectAll" THEN Consents(FALSE, FALSE)
                      ELSE banner.consents)})
    /\ UNCHANGED <<storage, banner, settings>>

\* A handler of the banner that forgets the choice when the API fails.
BannerChoiceEndsApiOnly(w, ok) ==
    /\ w.handler \in BannerHandlers
    /\ storage' = MarkConsentShown(IF ok THEN SetLocalConsent(storage, w.consents)
                                   ELSE storage)
    /\ banner' = [banner EXCEPT !.isVisible = FALSE]
    /\ pending' = pending (-) SetToBag({w})
    /\ UNCHANGED settings

\* updateConsents resolves (ok) or throws: the handler of the banner stores
\* the choice, marks the banner as shown and hides it.
BannerChoiceEnds(w, ok) ==
    /\ w.handler \in BannerHandlers
    /\ storage' = MarkConsentShown(SetLocalConsent(storage, w.consents))
    /\ banner' = [banner EXCEPT !.isVisible = FALSE]
    /\ pending' = pending (-) SetToBag({w})
    /\ UNCHANGED settings

\* The page opens the settings: loadConsents calls getConsents.
OpenSettings ==
    /\ ~settings.isOpen
    /\ CanWait
    /\ settings' = [settings EXCEPT !.isOpen = TRUE]
    /\ pending' = pending (+) SetToBag({Waiting("loadConsents", settings.consents)})
    /\ UNCHANGED <<storage, banner>>

\* onClose of the settings.
CloseSettings ==
    /\ settings.isOpen
    /\ settings' = [settings EXCEPT !.isOpen = FALSE]
    /\ UNCHANGED <<storage, banner, pending>>

\* getLocalConsent(): the stored preferences, parsed; none stored: null.
GetLocalConsent(store) ==
    {c \in {Consents(a, l) : a, l \in BOOLEAN} : Stringify(c) = store.ventvault_consent}

\* getConsents resolves with the preferences the backend holds, or throws and
\* the locally stored ones are shown, if there are any.
LoadConsentsEnds(w, ok, answer) ==
    /\ w.handler = "loadConsents"
    /\ settings' = [settings EXCEPT !.consents =
                       IF ok THEN answer
                       ELSE IF GetLocalConsent(storage) # {}
                            THEN CHOOSE c \in GetLocalConsent(storage) : TRUE
                            ELSE @]
    /\ pending' = pending (-) SetToBag({w})
    /\ UNCHANGED <<storage, banner>>

\* The two switches of the settings.
SettingsSetConsents(analytics, location) ==
    /\ settings.isOpen
    /\ Consents(analytics, location) # settings.consents
    /\ analytics = settings.consents.analytics \/ location = settings.consents.location
    /\ settings' = [settings EXCEPT !.consents = Consents(analytics, location)]
    /\ UNCHANGED <<storage, banner, pending>>

\* handleSave up to the call of updateConsents; the button is disabled while
\* isSaving.
HandleSave ==
    /\ settings.isOpen /\ ~settings.isSaving
    /\ CanWait
    /\ settings' = [settings EXCEPT !.isSaving = TRUE, !.message = "null"]
    /\ pending' = pending (+) SetToBag({Waiting("handleSave", settings.consents)})
    /\ UNCHANGED <<storage, banner>>

\* updateConsents resolves (ok) or throws: handleSave stores the preferences.
HandleSaveEnds(w, ok) ==
    /\ w.handler = "handleSave"
    /\ storage' = SetLocalConsent(storage, w.consents)
    /\ settings' = [settings EXCEPT !.isSaving = FALSE,
                       !.message = IF ok THEN "Preferences saved" ELSE "Saved locally"]
    /\ pending' = pending (-) SetToBag({w})
    /\ UNCHANGED banner

\* Delete all data, and Cancel of the confirmation.
SetShowDeleteConfirm(show) ==
    /\ settings.isOpen
    /\ settings.showDeleteConfirm # show
    /\ settings' = [settings EXCEPT !.showDeleteConfirm = show]
    /\ UNCHANGED <<storage, banner, pending>>

\* handleDelete up to the call of deleteUserData.
HandleDelete ==
    /\ settings.isOpen /\ settings.showDeleteConfirm
    /\ CanWait
    /\ pending' = pending (+) SetToBag({Waiting("handleDelete", settings.consents)})
    /\ UNCHANGED <<storage, banner, settings>>

\* deleteUserData resolves (ok): localStorage is cleared and the reload is
\* scheduled; or it throws.
HandleDeleteEnds(w, ok) ==
    /\ w.handler = "handleDelete"
    /\ storage' = IF ok THEN ClearLocal(storage) ELSE storage
    /\ settings' = IF ok
                   THEN [settings EXCEPT !.message = "All data deleted",
                                         !.showDeleteConfirm = FALSE, !.reloadDue = TRUE]
                   ELSE [settings EXCEPT !.message = "Delete failed"]
    /\ pending' = pending (-) SetToBag({w})
    /\ UNCHANGED banner

\* The page loads again: window.location.reload() of handleDelete, or the
\* user comes back to the page.  The storage stays, the components mount.
PageLoads ==
    /\ banner' = MountBanner(storage)
    /\ settings' = InitialSettings
    /\ pending' = EmptyBag
    /\ UNCHANGED storage

\* The storage of a browser new to the site, and after a signed-in vent.
StoredIds == {EmptyStorage,
              [EmptyStorage EXCEPT !.ventvault_session_id = Sid(1),
                                   !.ventvault_user_id = UserId]}

\* The vent page loads for the first time.
PrivacyInit ==
    /\ ServerOff
    /\ ClientOff
    /\ PageOff
    /\ HealthOff
    /\ EarlyOff
    /\ AuthOff
    /\ sent = <<>> /\ scalls = {} /\ startedOver = FALSE
    /\ storage \in StoredIds
    /\ banner = MountBanner(storage)
    /\ settings = InitialSettings
    /\ pending = EmptyBag

PrivacyNext ==
    /\ UNCHANGED <<serverVars, clientVars, pageVars, sent, scalls, startedOver,
                   healthVars, earlyVars, authVars>>
    /\ \/ BannerTimerFires
       \/ BannerToggleDetails
       \/ \E a, l \in BOOLEAN : BannerSetConsents(a, l)
       \/ \E handler \in BannerHandlers : BannerChoice(handler)
       \/ \E w \in BagToSet(pending), ok \in BOOLEAN : BannerChoiceEnds(w, ok)
       \/ OpenSettings
       \/ CloseSettings
       \/ \E w \in BagToSet(pending), ok \in BOOLEAN, answer \in ConsentChoices :
              LoadConsentsEnds(w, ok, answer)
       \/ \E a, l \in BOOLEAN : SettingsSetConsents(a, l)
       \/ HandleSave
       \/ \E w \in BagToSet(pending), ok \in BOOLEAN : HandleSaveEnds(w, ok)
       \/ \E show \in BOOLEAN : SetShowDeleteConfirm(show)
       \/ HandleDelete
       \/ \E w \in BagToSet(pending), ok \in BOOLEAN : HandleDeleteEnds(w, ok)
       \/ PageLoads

PrivacySpec == PrivacyInit /\ [][PrivacyNext]_vars

\* The step is a load of the page.
Reloaded ==
    /\ banner' = MountBanner(storage)
    /\ settings' = InitialSettings
    /\ pending' = EmptyBag
    /\ storage' = storage

\* The handler w gets the answer of the API in this step and runs to its end.
Ends(w) == CopiesIn(w, pending') < CopiesIn(w, pending) /\ ~Reloaded

\* C27: when a handler of the banner (Accept All, Save Preferences, Reject
\* All) or handleSave of the settings ends, whether updateConsents resolved or
\* threw, the locally stored consent is the chosen values; after a handler of
\* the banner the shown-flag is set and the banner hidden.
C27_SavedLocallyEitherWay ==
    [][\A w \in BagToSet(pending) :
          (Ends(w) /\ w.handler \in BannerHandlers \cup {"handleSave"})
              => /\ storage'.ventvault_consent = Stringify(w.consents)
                 /\ w.handler = "handleAcceptAll" => w.consents = Consents(TRUE, TRUE)
                 /\ w.handler = "handleRejectAll" => w.consents = Consents(FALSE, FALSE)
                 /\ w.handler \in BannerHandlers
                       => /\ storage'.ventvault_consent_shown = <<"true">>
                          /\ ~banner'.isVisible]_vars

\* The banner's choice was stored, and later a save of the settings whose
\* call of the API threw.
C27_Witness ==
    /\ settings.message = "Saved locally"
    /\ storage.ventvault_consent = Stringify(Consents(FALSE, TRUE))
    /\ storage.ventvault_consent_shown = <<"true">>
    /\ ~banner.isVisible /\ ~banner.timer
    /\ pending = EmptyBag

\* C28: the banner is visible, or about to be, only while the shown-flag
\* is not set, and once the flag is set it stays set: after a choice the
\* banner is not shown again, on no later load of the page.
C28_ShownOnce ==
    /\ []((banner.isVisible \/ banner.timer) => ~HasConsentBeenShown(storage))
    /\ [][(banner'.isVisible /\ ~banner.isVisible) => banner.timer]_vars
    /\ [][HasConsentBeenShown(storage) => HasConsentBeenShown(storage')]_vars

\* The step is the end of a handleDelete whose call of the API resolved.
Deleted ==
    /\ storage' = ClearLocal(storage)
    /\ settings'.message = "All data deleted" /\ settings'.reloadDue

\* C28, amended: the banner is visible, or about to be, only while the
\* shown-flag is not set; it becomes visible only by the timer of a mount that
\* found no flag; and a flag that is set stays set until the user deletes all
\* data in the privacy settings.
C28_ShownOnceUntilDeleted ==
    /\ []((banner.isVisible \/ banner.timer) => ~HasConsentBeenShown(storage))
    /\ [][(banner'.isVisible /\ ~banner.isVisible) => banner.timer]_vars
    /\ [][(banner'.timer /\ ~banner.timer)
             => (~HasConsentBeenShown(storage) /\ banner' = MountBanner(storage))]_vars
    /\ [][(HasConsentBeenShown(storage) /\ ~HasConsentBeenShown(storage')) => Deleted]_vars

\* The banner's details were rejected, or the settings saved, and the page
\* was loaded again: the banner has mounted without its timer.
C28_Witness ==
    /\ HasConsentBeenShown(storage)
    /\ storage.ventvault_consent = Stringify(Consents(FALSE, FALSE))
    /\ banner = InitialBanner
    /\ settings = InitialSettings
    /\ pending = EmptyBag

\* C29: when a handleDelete ends after the API resolved, no key of VentVault
\* is left in the browser's storage and the reload is due; when it ends after
\* the API threw, the storage and the displayed consents are as before, no
\* reload has been scheduled and only the message, "Delete failed", changed.
C29_DataRemoval ==
    [][\A w \in BagToSet(pending) :
          (Ends(w) /\ w.handler = "handleDelete")
              => \/ /\ storage' = EmptyStorage
                    /\ settings'.message = "All data deleted"
                    /\ settings'.reloadDue
                 \/ /\ storage' = storage
                    /\ settings' = [settings EXCEPT !.message = "Delete failed"]]_vars

=========================================================================
